---- MODULE Spec2Model ----
(***************************************************************************)
(* Model of the Tyk gateway's reload machinery (gateway/server.go):        *)
(* reloadURLStructure -> reloadQueueLoop -> reloadLoop -> DoReload ->      *)
(* syncResourcesWithReload -> syncPolicies / syncAPISpecs ->               *)
(* loadGlobalApps, together with the concurrent readers of the API         *)
(* registry (getApiSpec) and the other callers of DoReload                 *)
(* (HTTPDashboardHandler.Register, startServer).                           *)
(***************************************************************************)
EXTENDS Integers, Sequences, FiniteSets, TLC

\* ------------------------------------------------------------------ bounds
MaxLen == 1          \* longest API list a source delivers
MaxCalls == 2        \* number of reloadURLStructure calls
MaxRetry == 1        \* largest configured ResourceSync.RetryAttempts
MaxPols == 2         \* longest policy list or directory a policy loader reads
MaxNonce == 2
MaxTime == 3        \* nonces the dashboard issues after the first registration

\* ------------------------------------------------------------------ values
None == "none"
Nil == 0                                   \* the nil callback
ApiIds == {"a", "b"}
PolicySets == {{}, {"p"}}                  \* key sets of loaded policy maps
Callbacks == 1 .. MaxCalls
Procs == {"reloadLoop", "Register", "startServer"}   \* callers of DoReload
HTTPServers == {"h1", "h2"}                \* proxies of the mux with an httpServer
TCPProxies == {"t1"}                       \* proxies of the mux with a tcpProxy
Proxies == HTTPServers \cup TCPProxies
\* the calls to the dashboard that carry X-Tyk-Nonce: sendHeartBeat,
\* LoadPoliciesFromDashboard, NotifyDashboardOfEvent, DeRegister
DashCallers == {"heartbeat", "policies", "notify", "deregister"}
\* status codes a plugin may send
PluginStatuses == {200, 404, 500}
\* no response hook running: w is the status the client's ResponseWriter
\* has sent (0: none yet), body tells that body bytes were written,
\* responseSent and statusCodeSent are the fields of customResponseWriter,
\* ret is what HandleGoPluginResponse returned, later is the number of
\* response processors behind the hook and ran how many of them have run
IdlePlugin == [pc |-> "idle", w |-> 0, body |-> FALSE, responseSent |-> FALSE,
               statusCodeSent |-> 0, panicked |-> FALSE, ret |-> None,
               later |-> 0, ran |-> 0]
\* clients sending requests at the same time
Clients == {"c1", "c2"}
\* status codes of the upstream
UpstreamCodes == {200, 500, 502}
\* circuit breaker settings: samples, threshold_percent in tenths,
\* return_to_service_after in ticks of the clock
BreakerConfigs == [samples : 1 .. MaxLen + 1, threshold : {1, 10}, coolDown : {1, 2}]
\* the breaker before the API is loaded (window: the failure flags of the
\* latest responses sampled; history: probes counts the requests sent
\* upstream since the breaker went half-open, streak the latest upstream
\* responses in a row that were 5xx, events the events emitted)
NoBreaker == [pc |-> "unloaded", cfg |-> [samples |-> 1, threshold |-> 1, coolDown |-> 1],
              state |-> "closed", window |-> <<>>, openedAt |-> 0, now |-> 0,
              probes |-> 0, streak |-> 0, events |-> <<>>]
NoReq == [pc |-> "idle", code |-> 0, reached |-> FALSE, probe |-> FALSE]
NoJoin == [pc |-> "idle", a |-> <<>>, b |-> <<>>, keep |-> FALSE, out |-> <<>>, again |-> <<>>]
\* the heartbeat loops that may be started: one at boot, one by each reLogin
Loops == 1 .. MaxCalls
\* seconds the heartbeat loop sleeps between two heartbeats
HeartbeatSleep == 2
\* seconds reLogin sleeps between de-registering and registering again
ReLoginSleep == 5
\* a loop that has not been started (history: stopped tells that
\* StopBeating was called while the loop ran, sent counts the heartbeats
\* the loop has sent since, up to 2)
NoLoop == [pc |-> "none", timer |-> 0, stopped |-> FALSE, sent |-> 0]
\* heartBeatStopSentinel has its zero value, HeartBeatStarted
NoBeat == [sentinel |-> "started", loop |-> [l \in Loops |-> NoLoop],
           rl |-> [pc |-> "idle", timer |-> 0, logins |-> 0], shut |-> FALSE]
\* the settings that disable the node-local rate limiter
DRLFlags == {"ManagementNode", "EnableSentinelRateLimiter",
             "EnableRedisRollingLimiter", "EnableFixedWindowRateLimiter"}
\* the goroutines that call startDRL
DRLCallers == {"g1", "g2"}
\* before the first call: drlOnce is unused, nothing has been created
NoDRL == [cfg |-> {}, once |-> "fresh",
          call |-> [g \in DRLCallers |-> [pc |-> "idle", disabled |-> FALSE]],
          limiters |-> 0, inits |-> 0, notifs |-> 0, returned |-> 0]
\* the CORS headers, and the names of all headers of a response
corsHeaders == {"Access-Control-Allow-Origin", "Access-Control-Allow-Credentials"}
HeaderNames == corsHeaders \cup {"Vary"}
\* a header set gives each name its list of values
EmptyHeader == [h \in HeaderNames |-> <<>>]
\* makeHeaders: the headers in present are set to one value v
makeHeaders(present, v) == [h \in HeaderNames |-> IF h \in present THEN <<v>> ELSE <<>>]
NoHeaders == [pc |-> "idle", src |-> EmptyHeader, dst |-> EmptyHeader]
\* the endpoints of the API that may carry a hard timeout
TimeoutPaths == {"/delay", "/delay2"}
\* ProxyDefaultTimeout in seconds, 0 when it is not configured
DefaultTimeouts == 0 .. MaxTime
\* ExtendedPaths.HardTimeouts: the TimeOut of each endpoint, 0 when the
\* endpoint has no entry
HardTimeouts == [TimeoutPaths -> 0 .. MaxTime]
\* seconds the upstream sleeps before it answers
UpstreamDelays == 1 .. MaxTime
NoProxy == [pc |-> "unloaded", td |-> 0, hard |-> [q \in TimeoutPaths |-> 0],
            path |-> "/delay", delay |-> 1, elapsed |-> 0, code |-> 0, body |-> ""]
\* the keys of the sessions that send requests
Sessions == {"k1", "k2"}
\* quota settings of the sessions: QuotaMax and QuotaRenewalRate (in ticks)
QuotaConfigs == [max : 1 .. MaxCalls, rate : {1, 2}]
\* a session that has sent no request (history: log holds the `remaining`
\* values reported to the requests admitted in the current window, code
\* and remaining are those of its latest response)
NewSession == [counter |-> 0, renewsAt |-> 0, log |-> <<>>, code |-> 0, remaining |-> 0]
NoQuota == [pc |-> "unloaded", cfg |-> [max |-> 1, rate |-> 1], now |-> 0,
            sess |-> [s \in Sessions |-> NewSession]]
\* values of conf.Secret and of the X-Tyk-Authorization header ("" is the
\* value of an unset secret)
Secrets == {"", "s1", "s2"}
\* the request's X-Tyk-Authorization header: absent, or present with a value
AuthHeaders == [present : BOOLEAN, value : Secrets]
ControlPaths == {"/tyk/reload", "/tyk/keys", "/tyk/nowhere"}
NoRequest == [path |-> "", auth |-> [present |-> FALSE, value |-> ""]]
\* the control API before afterConfSetup
BootControl == [pc |-> "boot", secret |-> "", req |-> NoRequest, status |-> 0,
                invoked |-> FALSE]
\* the node ids the dashboard hands out
NodeIDs == {"n1", "n2"}
\* no Register call in progress
IdleRegister == [pc |-> "idle", status |-> None, node |-> "", found |-> FALSE, nonce |-> 0]
\* a caller that has no call in progress
IdleCall == [pc |-> "idle", carried |-> 0, status |-> None, nonce |-> 0, echo |-> TRUE]

\* a loaded API definition: its id and whether APISpec.Validate accepts it
ApiDef == [id : ApiIds, valid : BOOLEAN]

RECURSIVE SeqsUpTo(_, _)
SeqsUpTo(S, n) ==
    IF n = 0 THEN {<<>>}
    ELSE LET shorter == SeqsUpTo(S, n - 1)
         IN  shorter \cup {Append(q, x) : q \in {r \in shorter : Len(r) = n - 1}, x \in S}

LoadedLists == SeqsUpTo(ApiDef, MaxLen)

\* a path is a sequence of symbols: "/" or a name without a slash
TargetPaths == SeqsUpTo({"/", "foo"}, MaxLen + 2)
RequestPaths == SeqsUpTo({"/", "bar"}, MaxLen + 2)

\* spec.CustomMiddleware: the slots that hold a list of handlers
Slots == {"Pre", "Post", "PostKeyAuth", "Response"}
\* apidef.MiddlewareDefinition as an API definition declares it: Name and
\* Disabled; the Path of "m1" ends in ".so", that of "m2" in ".js"
MwDef == [name : {"m1", "m2"}, disabled : BOOLEAN]
\* the definition loadCustomMiddleware builds from a *.js file of a folder
FolderMw(folder) == [name |-> folder, disabled |-> FALSE]
MwLists == SeqsUpTo(MwDef, MaxLen + 1)
FewMwLists == {<<>>, <<[name |-> "m1", disabled |-> FALSE]>>,
               <<[name |-> "m2", disabled |-> TRUE]>>}
\* the *.js files of the middleware folders of the API: none, or one each
NoFiles == [pre |-> <<>>, post_auth |-> <<>>, post |-> <<>>]
SomeFiles == [pre |-> <<FolderMw("pre")>>, post_auth |-> <<FolderMw("post_auth")>>,
              post |-> <<FolderMw("post")>>]
\* spec.ResponseProcessors: names of processors ("nonesuch" names none)
ProcessorNames == {"header_injector", "header_transform", "nonesuch"}
\* an API spec: its CustomMiddleware lists, the files of its middleware
\* folders, its ResponseProcessors, and whether its response transform and
\* its header injector are enabled
APISpec(cm, files, rp, transform, injector) ==
    [cm |-> cm, files |-> files, rp |-> rp, transform |-> transform,
     injector |-> injector]
NoSlots == [s \in Slots |-> <<>>]
\* no API spec is being loaded
IdleMw == [pc |-> "idle", api |-> None, slots |-> NoSlots, chain |-> <<>>]

VARIABLES
    probe,           \* history: what a DoReload starts from and loads is recorded
    rpcUp,           \* the RPC store accepts connections (store.Connect())
    apiSource,       \* the API lists the configured source may deliver
    conf,            \* gw.GetConfig(): EnableJSVM, UseDBAppConfigs, UseRPC, PolicyRecord, RetryAttempts
    apiSpecs,        \* gw.apiSpecs
    apisByID,        \* gw.apisByID (its key set, each key mapped to the spec of that id)
    policiesByID,    \* gw.policiesByID (its key set)
    apisMu,          \* gw.apisMu: [w |-> holder of the write lock, r |-> read holders]
    policiesMu,      \* gw.policiesMu: holder of the write lock
    reloadMu,        \* gw.reloadMu: holder
    emergency,       \* rpc emergency mode flag
    performedSuccessfulReload,
    dr,              \* per caller: position and locals inside DoReload
    stepLog,         \* history: steps of the DoReload in progress
    preReg,          \* history: the registry when the running DoReload started
    sending,         \* senders blocked in reloadURLStructure on gw.reloadQueue
    nextCall,        \* number of reloadURLStructure calls made so far
    qpc, qfn,        \* reloadQueueLoop: position and received fn
    requeue,         \* gw.requeue
    lpc, cb, idx,    \* reloadLoop: position, drained callbacks, loop index
    cycleResult,     \* history: outcome of the DoReload of the current cycle
    lastTick,        \* history: what the last tick did
    queued,          \* history: callbacks in the order reloadQueueLoop received them
    invoked,         \* history: callbacks in the order they were invoked
    ctxDone,         \* gw.ctx cancelled
    rpc, obs,        \* reader of the registry: position, last read during the running DoReload
    started,         \* startServer has made its DoReload call
    plLoader,        \* policy loader called: "dashboard", "rpc", "dir" (None: no call)
    plExplicit,      \* its allowExplicit argument
    plInput,         \* the policies of the reply, or the files of the directory, in order
    plMap,           \* the map it returns: policy id -> position of the policy in plInput
    plPc,            \* "idle", "called", "done"
    gsPc,            \* Start / gracefulShutdown: position
    listener,        \* per proxy of the mux: its listener, "open" or "closed"
    conn,            \* per proxy: its connection, [st, before]: state, accepted before the signal
    sd,              \* per proxy: its shutdown goroutine
    ctxExpired,      \* the shutdown context (GracefulShutdownTimeoutDuration) has expired
    timedOut,        \* gracefulShutdown took the <-ctx.Done() branch
    errs,            \* errors sent to errChan
    closedCaches,    \* the caches closed so far, in order
    ServiceNonce,    \* gw.ServiceNonce
    dc,              \* per caller of the dashboard: [pc, carried, status, nonce, echo]
    issued,          \* dashboard: number of nonces issued
    lastDelivered,   \* dashboard: the nonce its latest 200 response delivered
    NodeID,          \* gw.GetNodeID(): the node id the dashboard gave ("" if none)
    reg,             \* the Register call of sendHeartBeat: [pc, status, node, found, nonce]
    hbLog,           \* history: what the running Register call has done, in order
    ctl,             \* control API: [pc, secret, req, status, invoked]
    mw,              \* API loading: [pc, api, slots, chain] (custom middleware slots, response chain)
    gp,              \* Go-plugin response hook: [pc, w, body, responseSent, statusCodeSent, panicked, ret, later, ran]
    brk,             \* circuit breaker of one (path, method): [pc, cfg, state, window, openedAt, now, probes, streak, events]
    breq,            \* per client: its request to the protected path, [pc, code, reached, probe]
    quota,           \* quota manager: [pc, cfg, now, sess] with per session [counter, renewsAt, log, code, remaining]
    px,              \* reverse proxy with enforced timeouts: [pc, td, hard, path, delay, elapsed, code, body]
    hdr,             \* response headers: [pc, src, dst] with dst the gateway's headers, copied into from the upstream's src
    pj,              \* joining of the target path a and the request path b: [pc, a, b, keep, out, again]
    drl,             \* startDRL: [cfg, once, call, limiters, inits, notifs, returned], call[g] = [pc, disabled]
    hb,              \* heartbeat loops: [sentinel, loop, rl, shut], loop[l] = [pc, timer, stopped, sent], rl = [pc, timer, logins]
    gsLog            \* history: what gracefulShutdown did after its error check, in order

vars == <<probe, rpcUp, apiSource, conf, apiSpecs, apisByID, policiesByID, apisMu, policiesMu, reloadMu,
          emergency, performedSuccessfulReload, dr, stepLog, preReg, sending,
          nextCall, qpc, qfn, requeue, lpc, cb, idx, cycleResult, lastTick,
          queued, invoked, ctxDone, rpc, obs, started,
          plLoader, plExplicit, plInput, plMap, plPc,
          gsPc, listener, conn, sd, ctxExpired, timedOut, errs, closedCaches,
          ServiceNonce, dc, issued, lastDelivered,
          NodeID, reg, hbLog,
          ctl,
          mw,
          gp,
          brk, breq,
          quota,
          px,
          hdr,
          pj,
          drl,
          hb,
          gsLog>>

\* what no step of the reload machinery changes
loaderVars == <<plLoader, plExplicit, plInput, plMap, plPc>>
shutdownVars == <<gsPc, listener, conn, sd, ctxExpired, timedOut, errs, closedCaches, gsLog>>
\* the state of what runs beside the reload machinery
hbVars == <<NodeID, reg, hbLog>>
dashVars == <<ServiceNonce, dc, issued, lastDelivered, hbVars>>
ctlVars == <<ctl>>
mwVars == <<mw>>
pluginVars == <<gp>>
breakerVars == <<brk, breq>>
quotaVars == <<quota>>
proxyVars == <<px>>
headerVars == <<hdr>>
joinVars == <<pj>>
drlVars == <<drl>>
beatVars == <<hb>>
sideVars == <<loaderVars, shutdownVars, dashVars, ctlVars, mwVars, pluginVars, breakerVars, quotaVars, proxyVars, headerVars, joinVars, drlVars, beatVars>>
besideLoader == <<shutdownVars, dashVars, ctlVars, mwVars, pluginVars, breakerVars, quotaVars, proxyVars, headerVars, joinVars, drlVars, beatVars>>
besideShutdown == <<loaderVars, dashVars, ctlVars, mwVars, pluginVars, breakerVars, quotaVars, proxyVars, headerVars, joinVars, drlVars, beatVars>>
besideDash == <<loaderVars, shutdownVars, ctlVars, mwVars, pluginVars, breakerVars, quotaVars, proxyVars, headerVars, joinVars, drlVars, beatVars>>
besideControl == <<loaderVars, shutdownVars, dashVars, mwVars, pluginVars, breakerVars, quotaVars, proxyVars, headerVars, joinVars, drlVars, beatVars>>
besideMiddleware == <<loaderVars, shutdownVars, dashVars, ctlVars, pluginVars, breakerVars, quotaVars, proxyVars, headerVars, joinVars, drlVars, beatVars>>
besidePlugin == <<loaderVars, shutdownVars, dashVars, ctlVars, mwVars, breakerVars, quotaVars, proxyVars, headerVars, joinVars, drlVars, beatVars>>
besideBreaker == <<loaderVars, shutdownVars, dashVars, ctlVars, mwVars, pluginVars, quotaVars, proxyVars, headerVars, joinVars, drlVars, beatVars>>
besideQuota == <<loaderVars, shutdownVars, dashVars, ctlVars, mwVars, pluginVars, breakerVars, proxyVars, headerVars, joinVars, drlVars, beatVars>>
besideProxy == <<loaderVars, shutdownVars, dashVars, ctlVars, mwVars, pluginVars, breakerVars, quotaVars, headerVars, joinVars, drlVars, beatVars>>
besideHeader == <<loaderVars, shutdownVars, dashVars, ctlVars, mwVars, pluginVars, breakerVars, quotaVars, proxyVars, joinVars, drlVars, beatVars>>
besideJoin == <<loaderVars, shutdownVars, dashVars, ctlVars, mwVars, pluginVars, breakerVars, quotaVars, proxyVars, headerVars, drlVars, beatVars>>
besideDRL == <<loaderVars, shutdownVars, dashVars, ctlVars, mwVars, pluginVars, breakerVars, quotaVars, proxyVars, headerVars, joinVars, beatVars>>
besideBeat == <<loaderVars, shutdownVars, dashVars, ctlVars, mwVars, pluginVars, breakerVars, quotaVars, proxyVars, headerVars, joinVars, drlVars>>
envVars == <<probe, rpcUp, apiSource, conf, sideVars>>
regVars == <<apiSpecs, apisByID, policiesByID>>
lockVars == <<apisMu, policiesMu, reloadMu>>
queueVars == <<sending, nextCall, qpc, qfn, requeue, queued>>
loopVars == <<lpc, cb, idx, cycleResult, lastTick, invoked>>
readerVars == <<rpc, obs>>
\* the state of the reload machinery
gatewayVars == <<probe, rpcUp, apiSource, conf, regVars, lockVars, emergency,
                 performedSuccessfulReload, dr, stepLog, preReg, queueVars,
                 loopVars, ctxDone, readerVars, started>>

\* ------------------------------------------------------------ pure helpers
Ids(specs) == {specs[k].id : k \in 1 .. Len(specs)}

\* mutant: the definitions that fail validation are kept
FilterNothing(s) == s

\* the validation filter of syncAPISpecs
RECURSIVE FilterValid(_)
FilterValid(s) ==
    IF s = <<>> THEN <<>>
    ELSE IF Head(s).valid THEN <<Head(s)>> \o FilterValid(Tail(s))
         ELSE FilterValid(Tail(s))

\* the register loadApps builds from the specs it was given
SpecRegister(specs) == Ids(specs)

\* preReg while no DoReload is running
NoRegistry == [specs |-> <<>>, byID |-> {}]

\* locals of a caller that is not inside DoReload
\* (history: calls and oks count the calls of syncFunc that returned in the
\* running syncResourcesWithReload and those of them that returned no error;
\* reach tells that the RPC store accepted connections ever since DoReload
\* was entered; where probe asks for them, from is where the last policy map
\* was loaded from, prePols is gw.policiesByID as it was when DoReload was
\* entered and loaded is the list the API loader delivered last)
IdleDR == [pc |-> "idle", res |-> None, i |-> 0, s |-> <<>>, pols |-> {},
           count |-> 0, err |-> FALSE, em |-> FALSE, result |-> None,
           calls |-> 0, oks |-> 0, from |-> None, reach |-> TRUE,
           prePols |-> {}, loaded |-> <<>>]

\* the configurations: with UseDBAppConfigs the policy source is the service
Configs ==
    {c \in [EnableJSVM : BOOLEAN, UseDBAppConfigs : BOOLEAN, UseRPC : BOOLEAN,
            PolicyRecord : BOOLEAN, RetryAttempts : 0 .. MaxRetry] :
        c.UseDBAppConfigs => c.PolicyRecord}

\* the configuration of a gateway slaved to RPC, with the JSVM enabled and
\* one retry
RPCConfigs ==
    {c \in Configs : /\ c.UseRPC /\ ~c.UseDBAppConfigs /\ c.PolicyRecord
                     /\ c.EnableJSVM /\ c.RetryAttempts = 1}

\* a source that holds one valid API definition, or none
OneApiLists == {<<>>, <<[id |-> "a", valid |-> TRUE]>>}

\* a source that can deliver valid and invalid definitions in one list
MixedLists == SeqsUpTo(ApiDef, MaxLen + 1)

InitState(cfgs, lists, q) ==
    /\ probe \in BOOLEAN
    /\ rpcUp = TRUE
    /\ conf \in cfgs
    /\ apiSource = lists
    /\ apiSpecs = <<>>
    /\ apisByID = {}
    /\ policiesByID = {}
    /\ apisMu = [w |-> None, r |-> {}]
    /\ policiesMu = None
    /\ reloadMu = None
    /\ emergency = FALSE
    /\ performedSuccessfulReload = FALSE
    /\ dr = [p \in Procs |-> IdleDR]
    /\ stepLog = <<>>
    /\ preReg = NoRegistry
    /\ sending = {}
    /\ nextCall = 0
    /\ qpc = "select"
    /\ qfn = Nil
    /\ requeue = q
    /\ lpc = "select"
    /\ cb = <<>>
    /\ idx = 0
    /\ cycleResult = None
    /\ lastTick = None
    /\ queued = <<>>
    /\ invoked = <<>>
    /\ ctxDone = FALSE
    /\ rpc = "idle"
    /\ obs = {}
    /\ started = FALSE
    /\ plLoader = None /\ plExplicit = FALSE /\ plInput = <<>> /\ plMap = <<>>
    /\ plPc = "idle"
    /\ gsPc = "serving"
    /\ listener = [x \in Proxies |-> "open"]
    /\ conn = [x \in Proxies |-> [st |-> "none", before |-> FALSE]]
    /\ sd = [x \in Proxies |-> "none"]
    /\ ctxExpired = FALSE /\ timedOut = FALSE /\ errs = 0
    /\ closedCaches = <<>>
    /\ ServiceNonce = 0 /\ issued = 0 /\ lastDelivered = 0
    /\ dc = [c \in DashCallers |-> IdleCall]
    /\ NodeID = "n0" /\ reg = IdleRegister /\ hbLog = <<>>
    /\ ctl = BootControl
    /\ mw = IdleMw
    /\ gp = IdlePlugin
    /\ brk = NoBreaker /\ breq = [c \in Clients |-> NoReq]
    /\ quota = NoQuota
    /\ px = NoProxy
    /\ hdr = NoHeaders
    /\ pj = NoJoin
    /\ drl = NoDRL
    /\ hb = NoBeat
    /\ gsLog = <<>>

\* the state NewGateway leaves behind
Init == InitState(Configs, LoadedLists, <<>>) /\ ~probe

\* ------------------------------------------------------------- DoReload
\* the steps of one DoReload, as stepLog records them
JSVMStep == "jsvm"
PolStart == "policies:start"
PolOK == "policies:ok"
PolErr == "policies:err"
ApiStart == "apis:start"
ApiOK == "apis:ok"
ApiErr == "apis:err"
RebuildStart == "rebuild:start"
RebuildDone == "rebuild:done"

Registry == [specs |-> apiSpecs, byID |-> apisByID]

\* a caller enters DoReload
CallDoReload(p) == dr' = [dr EXCEPT ![p] = [IdleDR EXCEPT !.pc = "lock"]]

\* mutant: DoReload does not wait for gw.reloadMu
ReloadMuIgnored == TRUE

\* gw.reloadMu.Lock() can return
ReloadMuFree == reloadMu = None

DoReloadLock(p) ==
    /\ dr[p].pc = "lock"
    /\ ReloadMuFree
    /\ reloadMu' = p
    /\ dr' = [dr EXCEPT ![p] = [IdleDR EXCEPT !.pc = "jsvm", !.result = "running",
                                               !.reach = rpcUp,
                                               !.prePols = IF probe THEN policiesByID
                                                           ELSE {}]]
    /\ stepLog' = <<>>
    /\ preReg' = Registry
    /\ obs' = {}
    /\ UNCHANGED <<envVars, regVars, apisMu, policiesMu, emergency,
                   performedSuccessfulReload, queueVars, loopVars, ctxDone,
                   rpc, started>>

\* Initialize/reset the JSVM, then enter syncResourcesWithReload("policies")
DoReloadJSVM(p) ==
    /\ dr[p].pc = "jsvm"
    /\ stepLog' = (IF conf.EnableJSVM THEN Append(stepLog, JSVMStep) ELSE stepLog)
                      \o <<PolStart>>
    /\ dr' = [dr EXCEPT ![p] = [@ EXCEPT !.pc = "pol_load", !.res = "policies",
                                          !.i = 1, !.em = FALSE]]
    /\ UNCHANGED <<envVars, regVars, lockVars, emergency, performedSuccessfulReload,
                   preReg, queueVars, loopVars, ctxDone, readerVars, started>>

\* Policies.PolicySource of a configuration that names a policy source
PolicySource ==
    IF conf.UseDBAppConfigs THEN "service" ELSE IF conf.UseRPC THEN "rpc" ELSE "file"

\* where the policy loader reads: LoadPoliciesFromRPC reads the backup while
\* rpc.IsEmergencyMode(), every other loader reads its source
PolicyLoadedFrom ==
    IF PolicySource = "rpc" /\ emergency THEN "backup" ELSE PolicySource

\* syncPolicies up to the point where the loaded map is known: the source
\* fails, or delivers a policy map, or no policy record is configured
SyncPoliciesLoad(p) ==
    /\ dr[p].pc = "pol_load"
    /\ \/ /\ conf.PolicyRecord
          /\ dr' = [dr EXCEPT ![p] = [@ EXCEPT !.pc = "sync_ret", !.count = 0,
                                                !.err = TRUE]]
       \/ /\ conf.PolicyRecord
          /\ PolicyLoadedFrom = "rpc" => rpcUp
          /\ \E ps \in PolicySets :
                dr' = [dr EXCEPT ![p] = [@ EXCEPT !.pc = "pol_lock", !.pols = ps,
                                                  !.from = IF probe THEN PolicyLoadedFrom
                                                            ELSE None]]
       \/ /\ ~conf.PolicyRecord
          /\ dr' = [dr EXCEPT ![p] = [@ EXCEPT !.pc = "sync_ret", !.count = 0,
                                                !.err = FALSE]]
    /\ UNCHANGED <<envVars, regVars, lockVars, emergency, performedSuccessfulReload,
                   stepLog, preReg, queueVars, loopVars, ctxDone, readerVars, started>>

\* gw.policiesMu.Lock()
SyncPoliciesLock(p) ==
    /\ dr[p].pc = "pol_lock"
    /\ policiesMu = None
    /\ policiesMu' = p
    /\ dr' = [dr EXCEPT ![p] = [@ EXCEPT !.pc = "pol_assign"]]
    /\ UNCHANGED <<envVars, regVars, apisMu, reloadMu, emergency,
                   performedSuccessfulReload, stepLog, preReg, queueVars, loopVars,
                   ctxDone, readerVars, started>>

\* gw.policiesByID = pols; return len(pols), nil (deferred Unlock)
SyncPoliciesAssign(p) ==
    /\ dr[p].pc = "pol_assign"
    /\ policiesByID' = dr[p].pols
    /\ policiesMu' = None
    /\ dr' = [dr EXCEPT ![p] = [@ EXCEPT !.pc = "sync_ret",
                                          !.count = Cardinality(dr[p].pols),
                                          !.err = FALSE]]
    /\ UNCHANGED <<envVars, apiSpecs, apisByID, apisMu, reloadMu, emergency,
                   performedSuccessfulReload, stepLog, preReg, queueVars, loopVars,
                   ctxDone, readerVars, started>>

\* whether the configured API source can report an error (FromDir cannot)
ApiSourceCanFail == conf.UseDBAppConfigs \/ conf.UseRPC

\* mutant: gw.apisMu is locked before the definitions are loaded
SyncAPISpecsLoadLocked(p) ==
    /\ dr[p].pc = "api_load"
    /\ apisMu.w = None /\ apisMu.r = {}
    /\ apisMu' = [apisMu EXCEPT !.w = p]
    /\ \E s \in apiSource :
          dr' = [dr EXCEPT ![p] = [@ EXCEPT !.pc = "api_validate", !.s = s]]
    /\ UNCHANGED <<envVars, regVars, policiesMu, reloadMu, emergency,
                   performedSuccessfulReload, stepLog, preReg, queueVars, loopVars,
                   ctxDone, readerVars, started>>

\* syncAPISpecs up to "Detected %v APIs": the loader fails or delivers a list
SyncAPISpecsLoad(p) ==
    /\ dr[p].pc = "api_load"
    /\ \/ /\ ApiSourceCanFail
          /\ dr' = [dr EXCEPT ![p] = [@ EXCEPT !.pc = "sync_ret", !.count = 0,
                                                !.err = TRUE]]
       \/ \E s \in apiSource :
             dr' = [dr EXCEPT ![p] = [@ EXCEPT !.pc = "api_validate", !.s = s,
                                               !.loaded = IF probe THEN s ELSE <<>>]]
    /\ UNCHANGED <<envVars, regVars, lockVars, emergency, performedSuccessfulReload,
                   stepLog, preReg, queueVars, loopVars, ctxDone, readerVars, started>>

\* the validation loop of syncAPISpecs
SyncAPISpecsValidate(p) ==
    /\ dr[p].pc = "api_validate"
    /\ dr' = [dr EXCEPT ![p] = [@ EXCEPT !.pc = "api_lock", !.s = FilterValid(dr[p].s)]]
    /\ UNCHANGED <<envVars, regVars, lockVars, emergency, performedSuccessfulReload,
                   stepLog, preReg, queueVars, loopVars, ctxDone, readerVars, started>>

\* sync.RWMutex: Lock needs no holder at all, RLock no writer
CanLock(mu) == mu.w = None /\ mu.r = {}
CanRLock(mu) == mu.w = None

\* gw.apisMu.Lock()
SyncAPISpecsLock(p) ==
    /\ dr[p].pc = "api_lock"
    /\ CanLock(apisMu)
    /\ apisMu' = [apisMu EXCEPT !.w = p]
    /\ dr' = [dr EXCEPT ![p] = [@ EXCEPT !.pc = "api_assign"]]
    /\ UNCHANGED <<envVars, regVars, policiesMu, reloadMu, emergency,
                   performedSuccessfulReload, stepLog, preReg, queueVars, loopVars,
                   ctxDone, readerVars, started>>

\* gw.apiSpecs = filter; apiLen := len(gw.apiSpecs); Flush; gw.apisMu.Unlock()
SyncAPISpecsAssign(p) ==
    /\ dr[p].pc = "api_assign"
    /\ apiSpecs' = dr[p].s
    /\ apisMu' = [apisMu EXCEPT !.w = None]
    /\ dr' = [dr EXCEPT ![p] = [@ EXCEPT !.pc = "sync_ret", !.count = Len(dr[p].s),
                                          !.err = FALSE]]
    /\ UNCHANGED <<envVars, apisByID, policiesByID, policiesMu, reloadMu, emergency,
                   performedSuccessfulReload, stepLog, preReg, queueVars, loopVars,
                   ctxDone, readerVars, started>>

\* the first step of the sync function of a resource
SyncFunc(res) == IF res = "policies" THEN "pol_load" ELSE "api_load"

\* mutant: emergency mode is enabled whether or not the gateway is slaved to RPC
SyncResourcesAlwaysEmergency(d) ==
    IF ~d.err THEN [d EXCEPT !.pc = "synced"]
    ELSE IF d.em THEN [d EXCEPT !.pc = "synced", !.count = 0]
    ELSE IF d.i = conf.RetryAttempts + 1
         THEN [d EXCEPT !.pc = SyncFunc(d.res), !.em = TRUE]
    ELSE [d EXCEPT !.pc = "sleep"]

\* syncResourcesWithReload after syncFunc returned (count, err): return on
\* success; sleep and retry before the last attempt; after the last attempt
\* enable emergency mode and call syncFunc once more when slaved to RPC
SyncResourcesReturned(d) ==
    IF ~d.err THEN [d EXCEPT !.pc = "synced"]
    ELSE IF d.em THEN [d EXCEPT !.pc = "synced", !.count = 0]
    ELSE IF d.i = conf.RetryAttempts + 1
         THEN IF conf.UseRPC THEN [d EXCEPT !.pc = SyncFunc(d.res), !.em = TRUE]
              ELSE [d EXCEPT !.pc = "synced", !.count = 0]
    ELSE [d EXCEPT !.pc = "sleep"]

SyncResources(p) ==
    /\ dr[p].pc = "sync_ret"
    /\ dr' = [dr EXCEPT ![p] = SyncResourcesReturned(
                    [dr[p] EXCEPT !.calls = @ + 1,
                                  !.oks = @ + (IF dr[p].err THEN 0 ELSE 1)])]
    /\ emergency' = IF dr[p].err /\ ~dr[p].em /\ dr'[p].em THEN TRUE ELSE emergency
    /\ UNCHANGED <<envVars, regVars, lockVars, performedSuccessfulReload, stepLog,
                   preReg, queueVars, loopVars, ctxDone, readerVars, started>>

\* time.Sleep(conf.ResourceSync.Interval); i++; next attempt
SyncResourcesSleep(p) ==
    /\ dr[p].pc = "sleep"
    /\ dr' = [dr EXCEPT ![p] = [@ EXCEPT !.pc = SyncFunc(dr[p].res), !.i = @ + 1]]
    /\ UNCHANGED <<envVars, regVars, lockVars, emergency, performedSuccessfulReload,
                   stepLog, preReg, queueVars, loopVars, ctxDone, readerVars, started>>

\* mutant: the error of the policy sync is ignored
AfterPoliciesIgnoringError(d) ==
    [d EXCEPT !.pc = "api_load", !.res = "apis", !.i = 1, !.em = FALSE,
              !.calls = 0, !.oks = 0]

\* DoReload after syncResourcesWithReload("policies") returned: on error
\* return, else enter syncResourcesWithReload("apis")
AfterPolicies(d) ==
    IF d.err THEN [d EXCEPT !.pc = "ret", !.result = "failed"]
    ELSE [d EXCEPT !.pc = "api_load", !.res = "apis", !.i = 1, !.em = FALSE,
                   !.calls = 0, !.oks = 0]

DoReloadPoliciesSynced(p) ==
    /\ dr[p].pc = "synced"
    /\ dr[p].res = "policies"
    /\ dr' = [dr EXCEPT ![p] = AfterPolicies(dr[p])]
    /\ stepLog' = IF dr[p].err THEN Append(stepLog, PolErr)
                  ELSE stepLog \o <<PolOK, ApiStart>>
    /\ UNCHANGED <<envVars, regVars, lockVars, emergency, performedSuccessfulReload,
                   preReg, queueVars, loopVars, ctxDone, readerVars, started>>

\* gw.apisByIDLen()
apisByIDLen == Cardinality(apisByID)

\* mutant: the reload is skipped whenever the source reported 0 APIs
AfterAPIsSkipOnZero(d) ==
    IF d.err THEN [d EXCEPT !.pc = "ret", !.result = "failed"]
    ELSE IF d.count = 0 THEN [d EXCEPT !.pc = "ret", !.result = "abandoned"]
    ELSE [d EXCEPT !.pc = "load_copy"]

\* mutant: the reload is never skipped
AfterAPIsNeverSkip(d) ==
    IF d.err THEN [d EXCEPT !.pc = "ret", !.result = "failed"]
    ELSE [d EXCEPT !.pc = "load_copy"]

\* DoReload after syncResourcesWithReload("apis") returned: on error return;
\* skip re-loading only if the source reported 0 APIs and the current
\* registry had 0 APIs; else go on to loadGlobalApps
AfterAPIs(d) ==
    IF d.err THEN [d EXCEPT !.pc = "ret", !.result = "failed"]
    ELSE IF d.count = 0 /\ apisByIDLen = 0
         THEN [d EXCEPT !.pc = "ret", !.result = "abandoned"]
    ELSE [d EXCEPT !.pc = "load_copy"]

DoReloadAPIsSynced(p) ==
    /\ dr[p].pc = "synced"
    /\ dr[p].res = "apis"
    /\ dr[p].err \/ CanRLock(apisMu)
    /\ dr' = [dr EXCEPT ![p] = AfterAPIs(dr[p])]
    /\ stepLog' = Append(stepLog, IF dr[p].err THEN ApiErr ELSE ApiOK)
    /\ performedSuccessfulReload' =
          IF dr'[p].result = "abandoned" THEN TRUE ELSE performedSuccessfulReload
    /\ UNCHANGED <<envVars, regVars, lockVars, emergency, preReg, queueVars, loopVars,
                   ctxDone, readerVars, started>>

\* loadGlobalApps: copy gw.apiSpecs under the read lock
LoadGlobalAppsCopy(p) ==
    /\ dr[p].pc = "load_copy"
    /\ CanRLock(apisMu)
    /\ dr' = [dr EXCEPT ![p] = [@ EXCEPT !.pc = "load_lock", !.s = apiSpecs]]
    /\ stepLog' = Append(stepLog, RebuildStart)
    /\ UNCHANGED <<envVars, regVars, lockVars, emergency, performedSuccessfulReload,
                   preReg, queueVars, loopVars, ctxDone, readerVars, started>>

\* loadApps: the new register and routers are built; gw.apisMu.Lock()
LoadAppsLock(p) ==
    /\ dr[p].pc = "load_lock"
    /\ CanLock(apisMu)
    /\ apisMu' = [apisMu EXCEPT !.w = p]
    /\ dr' = [dr EXCEPT ![p] = [@ EXCEPT !.pc = "load_assign"]]
    /\ UNCHANGED <<envVars, regVars, policiesMu, reloadMu, emergency,
                   performedSuccessfulReload, stepLog, preReg, queueVars, loopVars,
                   ctxDone, readerVars, started>>

\* loadApps: gw.apisByID = tmpSpecRegister; gw.apisMu.Unlock()
LoadAppsAssign(p) ==
    /\ dr[p].pc = "load_assign"
    /\ apisByID' = SpecRegister(dr[p].s)
    /\ apisMu' = [apisMu EXCEPT !.w = None]
    /\ dr' = [dr EXCEPT ![p] = [@ EXCEPT !.pc = "finish"]]
    /\ stepLog' = Append(stepLog, RebuildDone)
    /\ UNCHANGED <<envVars, apiSpecs, policiesByID, policiesMu, reloadMu, emergency,
                   performedSuccessfulReload, preReg, queueVars, loopVars, ctxDone,
                   readerVars, started>>

\* gw.performedSuccessfulReload = true; "API reload complete"
DoReloadFinish(p) ==
    /\ dr[p].pc = "finish"
    /\ performedSuccessfulReload' = TRUE
    /\ dr' = [dr EXCEPT ![p] = [@ EXCEPT !.pc = "ret", !.result = "success"]]
    /\ UNCHANGED <<envVars, regVars, lockVars, emergency, stepLog, preReg, queueVars,
                   loopVars, ctxDone, readerVars, started>>

\* DoReload returns: the deferred gw.reloadMu.Unlock(); reloadLoop goes on
\* to DoCoprocessReload
DoReloadReturn(p) ==
    /\ dr[p].pc = "ret"
    /\ reloadMu' = None
    /\ dr' = [dr EXCEPT ![p] = IdleDR]
    /\ IF p = "reloadLoop"
       THEN /\ lpc' = "coprocess"
            /\ cycleResult' = dr[p].result
       ELSE UNCHANGED <<lpc, cycleResult>>
    /\ stepLog' = <<>>
    /\ preReg' = NoRegistry
    /\ obs' = {}
    /\ UNCHANGED <<envVars, regVars, apisMu, policiesMu, emergency,
                   performedSuccessfulReload, queueVars, cb, idx,
                   lastTick, invoked, ctxDone, rpc, started>>

\* ------------------------------------------------- other DoReload callers
\* HTTPDashboardHandler.Register: after a successful registration, h.Gw.DoReload()
RegisterDoReload ==
    /\ dr["Register"].pc = "idle"
    /\ CallDoReload("Register")
    /\ UNCHANGED <<envVars, regVars, lockVars, emergency, performedSuccessfulReload,
                   stepLog, preReg, queueVars, loopVars, ctxDone, readerVars, started>>

\* startServer: its final gw.DoReload()
StartServerDoReload ==
    /\ ~started
    /\ started' = TRUE
    /\ CallDoReload("startServer")
    /\ UNCHANGED <<envVars, regVars, lockVars, emergency, performedSuccessfulReload,
                   stepLog, preReg, queueVars, loopVars, ctxDone, readerVars>>

\* ---------------------------------------------------------- RPC store
\* the RPC store stops accepting connections
RPCDown ==
    /\ rpcUp
    /\ rpcUp' = FALSE
    /\ dr' = [p \in Procs |-> [dr[p] EXCEPT !.reach = FALSE]]
    /\ UNCHANGED <<probe, apiSource, conf, sideVars, regVars, lockVars, emergency,
                   performedSuccessfulReload, stepLog, preReg, queueVars, loopVars,
                   ctxDone, readerVars, started>>

\* the RPC store accepts connections again
RPCUp ==
    /\ ~rpcUp
    /\ rpcUp' = TRUE
    /\ UNCHANGED <<probe, apiSource, conf, sideVars, regVars, lockVars, emergency,
                   performedSuccessfulReload, dr, stepLog, preReg, queueVars,
                   loopVars, ctxDone, readerVars, started>>

\* ------------------------------------------------------- reload queue
\* reloadURLStructure(done): gw.reloadQueue <- done; the channel is
\* unbuffered, so the sender blocks until reloadQueueLoop receives
ReloadURLStructure(done) ==
    /\ nextCall < MaxCalls
    /\ nextCall' = nextCall + 1
    /\ sending' = sending \cup {[call |-> nextCall + 1, fn |-> done]}
    /\ UNCHANGED <<envVars, regVars, lockVars, emergency, performedSuccessfulReload,
                   dr, stepLog, preReg, qpc, qfn, requeue, queued, loopVars,
                   ctxDone, readerVars, started>>

\* reloadQueueLoop: case fn := <-gw.reloadQueue
ReloadQueueLoopRecv(m) ==
    /\ qpc = "select"
    /\ m \in sending
    /\ sending' = sending \ {m}
    /\ qfn' = m.fn
    /\ qpc' = "append"
    /\ queued' = Append(queued, m.fn)
    /\ UNCHANGED <<envVars, regVars, lockVars, emergency, performedSuccessfulReload,
                   dr, stepLog, preReg, nextCall, requeue, loopVars, ctxDone,
                   readerVars, started>>

\* mutant: the callback is put in front of the queued ones
RequeueFront(q, fn) == <<fn>> \o q

\* mutant: with a reload already queued, the callback is not queued
RequeueOnce(q, fn) == IF q = <<>> THEN <<fn>> ELSE q

\* gw.requeue = append(gw.requeue, fn)
Requeue(q, fn) == Append(q, fn)

\* reloadQueueLoop: the append under gw.requeueLock
ReloadQueueLoopAppend ==
    /\ qpc = "append"
    /\ requeue' = Requeue(requeue, qfn)
    /\ qfn' = Nil
    /\ qpc' = "select"
    /\ UNCHANGED <<envVars, regVars, lockVars, emergency, performedSuccessfulReload,
                   dr, stepLog, preReg, sending, nextCall, queued, loopVars,
                   ctxDone, readerVars, started>>

\* reloadQueueLoop: case <-gw.ctx.Done()
ReloadQueueLoopExit ==
    /\ qpc = "select"
    /\ ctxDone
    /\ qpc' = "stopped"
    /\ UNCHANGED <<envVars, regVars, lockVars, emergency, performedSuccessfulReload,
                   dr, stepLog, preReg, sending, nextCall, qfn, requeue, queued,
                   loopVars, ctxDone, readerVars, started>>

\* ------------------------------------------------------- reload loop
\* mutant: a tick drains the first queued callback only
ShouldReloadFirst(q) ==
    [n |-> IF q = <<>> THEN <<>> ELSE <<Head(q)>>, ok |-> Len(q) # 0,
     requeue |-> IF q = <<>> THEN <<>> ELSE Tail(q)]

\* mutant: the drained callbacks stay queued
ShouldReloadKeep(q) == [n |-> q, ok |-> Len(q) # 0, requeue |-> q]

\* shouldReload: the drained callbacks and the requeue left behind
ShouldReload(q) == [n |-> q, ok |-> Len(q) # 0, requeue |-> <<>>]

\* reloadLoop: case <-tick: no callback queued, continue
ReloadLoopTickIdle ==
    /\ lpc = "select"
    /\ ~ShouldReload(requeue).ok
    /\ lastTick' = "skipped"
    /\ UNCHANGED <<envVars, regVars, lockVars, emergency, performedSuccessfulReload,
                   dr, stepLog, preReg, queueVars, lpc, cb, idx, cycleResult,
                   invoked, ctxDone, readerVars, started>>

\* reloadLoop: case <-tick: callbacks drained, gw.DoReload() called
ReloadLoopTick ==
    /\ lpc = "select"
    /\ ShouldReload(requeue).ok
    /\ cb' = ShouldReload(requeue).n
    /\ requeue' = ShouldReload(requeue).requeue
    /\ lpc' = "reload"
    /\ idx' = 0
    /\ cycleResult' = None
    /\ lastTick' = "reload"
    /\ CallDoReload("reloadLoop")
    /\ UNCHANGED <<envVars, regVars, lockVars, emergency, performedSuccessfulReload,
                   stepLog, preReg, sending, nextCall, qpc, qfn, queued, invoked,
                   ctxDone, readerVars, started>>

\* reloadLoop: DoCoprocessReload()
ReloadLoopCoprocess ==
    /\ lpc = "coprocess"
    /\ lpc' = "callbacks"
    /\ idx' = 1
    /\ UNCHANGED <<envVars, regVars, lockVars, emergency, performedSuccessfulReload,
                   dr, stepLog, preReg, queueVars, cb, cycleResult, lastTick,
                   invoked, ctxDone, readerVars, started>>

\* the callback reloadLoop invokes at position k of the drained list
CallbackAt(list, k) == list[k]

\* mutant: the callbacks are invoked only after a DoReload that did not fail
ReloadLoopCallbackOnSuccess ==
    /\ lpc = "callbacks"
    /\ idx <= Len(cb)
    /\ invoked' = IF CallbackAt(cb, idx) # Nil /\ cycleResult # "failed"
                  THEN Append(invoked, CallbackAt(cb, idx)) ELSE invoked
    /\ idx' = idx + 1
    /\ UNCHANGED <<envVars, regVars, lockVars, emergency, performedSuccessfulReload,
                   dr, stepLog, preReg, queueVars, lpc, cb, cycleResult, lastTick,
                   ctxDone, readerVars, started>>

\* reloadLoop: one iteration of "for _, c := range cb": if c != nil { c() }
ReloadLoopCallback ==
    /\ lpc = "callbacks"
    /\ idx <= Len(cb)
    /\ invoked' = IF CallbackAt(cb, idx) # Nil
                  THEN Append(invoked, CallbackAt(cb, idx)) ELSE invoked
    /\ idx' = idx + 1
    /\ UNCHANGED <<envVars, regVars, lockVars, emergency, performedSuccessfulReload,
                   dr, stepLog, preReg, queueVars, lpc, cb, cycleResult, lastTick,
                   ctxDone, readerVars, started>>

\* reloadLoop: the cycle is complete, back to the select
ReloadLoopComplete ==
    /\ lpc = "callbacks"
    /\ idx > Len(cb)
    /\ lpc' = "select"
    /\ cb' = <<>>
    /\ idx' = 0
    /\ UNCHANGED <<envVars, regVars, lockVars, emergency, performedSuccessfulReload,
                   dr, stepLog, preReg, queueVars, cycleResult, lastTick, invoked,
                   ctxDone, readerVars, started>>

\* reloadLoop: case <-gw.ctx.Done()
ReloadLoopExit ==
    /\ lpc = "select"
    /\ ctxDone
    /\ lpc' = "stopped"
    /\ UNCHANGED <<envVars, regVars, lockVars, emergency, performedSuccessfulReload,
                   dr, stepLog, preReg, queueVars, cb, idx, cycleResult, lastTick,
                   invoked, ctxDone, readerVars, started>>

\* the gateway context is cancelled
CancelCtx ==
    /\ ~ctxDone
    /\ ctxDone' = TRUE
    /\ UNCHANGED <<envVars, regVars, lockVars, emergency, performedSuccessfulReload,
                   dr, stepLog, preReg, queueVars, loopVars, readerVars, started>>

\* ------------------------------------------------------- registry readers
\* a request-serving reader: gw.apisMu.RLock()
ReaderRLock ==
    /\ rpc = "idle"
    /\ CanRLock(apisMu)
    /\ apisMu' = [apisMu EXCEPT !.r = @ \cup {"reader"}]
    /\ rpc' = "rlocked"
    /\ UNCHANGED <<envVars, regVars, policiesMu, reloadMu, emergency,
                   performedSuccessfulReload, dr, stepLog, preReg, queueVars,
                   loopVars, ctxDone, obs, started>>

\* the read itself and gw.apisMu.RUnlock(); obs keeps the snapshot read while
\* a DoReload is running
ReaderRUnlock ==
    /\ rpc = "rlocked"
    /\ obs' = IF reloadMu # None THEN {Registry} ELSE obs
    /\ apisMu' = [apisMu EXCEPT !.r = @ \ {"reader"}]
    /\ rpc' = "idle"
    /\ UNCHANGED <<envVars, regVars, policiesMu, reloadMu, emergency,
                   performedSuccessfulReload, dr, stepLog, preReg, queueVars,
                   loopVars, ctxDone, started>>

\* ------------------------------------------------------- policy loaders
\* a policy of a dashboard or RPC reply: its MID and its explicit ID ("" if
\* none), which may be the MID of another policy
MIDs == {"m1", "m2"}
PolicyRec == [mid : MIDs, id : {"", "m1"}]

\* a policy file of the directory: whether os.Open and Decode succeed, and
\* the ID Decode left in pol (after a failed Decode: what it got to)
PolicyFile == [opens : BOOLEAN, decodes : BOOLEAN, id : {"", "m1", "m2"}]

\* id := p.MID.Hex(); if allowExplicit && p.ID != "" { id = p.ID }
PolicyKey(pol, allowExplicit) ==
    IF allowExplicit /\ pol.id # "" THEN pol.id ELSE pol.mid

\* policies[id] = the policy at position k
Put(m, id, k) == [x \in DOMAIN m \cup {id} |-> IF x = id THEN k ELSE m[x]]

\* LoadPoliciesFromDashboard, loop body: "Skipping policy, new item has a
\* duplicate ID!" when the id is already in the map
DashboardPut(m, id, k) == IF id \in DOMAIN m THEN m ELSE Put(m, id, k)

\* LoadPoliciesFromDashboard: for _, p := range list.Message
RECURSIVE LoadPoliciesFromDashboard(_, _, _, _)
LoadPoliciesFromDashboard(list, allowExplicit, k, m) ==
    IF k > Len(list) THEN m
    ELSE LoadPoliciesFromDashboard(list, allowExplicit, k + 1,
             DashboardPut(m, PolicyKey(list[k], allowExplicit), k))

\* mutant: a policy whose id is already in the map is skipped
RPCSkipDuplicate(m, id, k) == IF id \in DOMAIN m THEN m ELSE Put(m, id, k)

\* parsePoliciesFromRPC, loop body: policies[id] = p
RPCPut(m, id, k) == Put(m, id, k)

\* parsePoliciesFromRPC: for _, p := range dbPolicyList
RECURSIVE parsePoliciesFromRPC(_, _, _, _)
parsePoliciesFromRPC(list, allowExplicit, k, m) ==
    IF k > Len(list) THEN m
    ELSE parsePoliciesFromRPC(list, allowExplicit, k + 1,
             RPCPut(m, PolicyKey(list[k], allowExplicit), k))

\* LoadPoliciesFromDir, loop body: a file that does not open is skipped
\* (continue); a Decode error is logged and policies[pol.ID] = *pol follows
DirPut(m, file, k) == IF ~file.opens THEN m ELSE Put(m, file.id, k)

\* LoadPoliciesFromDir: for _, path := range paths
RECURSIVE LoadPoliciesFromDir(_, _, _)
LoadPoliciesFromDir(files, k, m) ==
    IF k > Len(files) THEN m
    ELSE LoadPoliciesFromDir(files, k + 1, DirPut(m, files[k], k))

\* a policy loader is called with a reply or a directory
PolicyLoaderCall ==
    /\ plPc = "idle"
    /\ \/ /\ plLoader' \in {"dashboard", "rpc"}
          /\ plExplicit' \in BOOLEAN
          /\ plInput' \in SeqsUpTo(PolicyRec, MaxPols)
       \/ /\ plLoader' = "dir"
          /\ plExplicit' = FALSE
          /\ plInput' \in SeqsUpTo(PolicyFile, MaxPols)
    /\ plPc' = "called"
    /\ UNCHANGED <<gatewayVars, besideLoader, plMap>>

DashboardPoliciesLoaded ==
    /\ plPc = "called" /\ plLoader = "dashboard"
    /\ plMap' = LoadPoliciesFromDashboard(plInput, plExplicit, 1, <<>>)
    /\ plPc' = "done"
    /\ UNCHANGED <<gatewayVars, besideLoader, plLoader, plExplicit, plInput>>

RPCPoliciesLoaded ==
    /\ plPc = "called" /\ plLoader = "rpc"
    /\ plMap' = parsePoliciesFromRPC(plInput, plExplicit, 1, <<>>)
    /\ plPc' = "done"
    /\ UNCHANGED <<gatewayVars, besideLoader, plLoader, plExplicit, plInput>>

DirPoliciesLoaded ==
    /\ plPc = "called" /\ plLoader = "dir"
    /\ plMap' = LoadPoliciesFromDir(plInput, 1, <<>>)
    /\ plPc' = "done"
    /\ UNCHANGED <<gatewayVars, besideLoader, plLoader, plExplicit, plInput>>

\* ---------------------------------------------------- graceful shutdown
\* cacheCreate: the caches in the order they are created
CreatedCaches ==
    <<"SessionCache", "ExpiryCache", "UtilCache", "ServiceCache",
      "RPCGlobalCache", "RPCCertCache">>

\* cacheClose: the caches in the order they are closed
cacheClose ==
    <<"SessionCache", "ServiceCache", "ExpiryCache", "UtilCache",
      "RPCGlobalCache", "RPCCertCache">>

\* a proxy accepts a connection that carries a request
Accept(x) ==
    /\ gsPc # "exited"
    /\ listener[x] = "open"
    /\ conn[x].st = "none"
    /\ conn' = [conn EXCEPT ![x] = [st |-> "active", before |-> gsPc = "serving"]]
    /\ UNCHANGED <<gatewayVars, besideShutdown, gsPc, listener, sd, ctxExpired,
                   timedOut, errs, closedCaches, gsLog>>

\* the request completes with its upstream status ("drained": while the
\* proxy's shutdown was waiting for it)
RequestComplete(x) ==
    /\ conn[x].st = "active"
    /\ conn' = [conn EXCEPT ![x].st = IF sd[x] = "waiting" THEN "drained" ELSE "ok"]
    /\ UNCHANGED <<gatewayVars, besideShutdown, gsPc, listener, sd, ctxExpired,
                   timedOut, errs, closedCaches, gsLog>>

\* Start: sig := <-sigChan; cancel(); context.WithTimeout; gw.gracefulShutdown
ShutdownSignal ==
    /\ gsPc = "serving"
    /\ gsPc' = "spawn"
    /\ UNCHANGED <<gatewayVars, besideShutdown, listener, conn, sd, ctxExpired,
                   timedOut, errs, closedCaches, gsLog>>

\* the shutdown context expires
ShutdownTimeout ==
    /\ gsPc \in {"spawn", "select", "wait", "closing", "errors"}
    /\ ~ctxExpired
    /\ ctxExpired' = TRUE
    /\ UNCHANGED <<gatewayVars, besideShutdown, gsPc, listener, conn, sd, timedOut,
                   errs, closedCaches, gsLog>>

\* gracefulShutdown: the loop over gw.DefaultProxyMux.proxies: wg.Add(1) and
\* a goroutine for every httpServer and every tcpProxy
GracefulShutdownSpawn ==
    /\ gsPc = "spawn"
    /\ sd' = [x \in Proxies |-> "spawned"]
    /\ gsPc' = "select"
    /\ UNCHANGED <<gatewayVars, besideShutdown, listener, conn, ctxExpired, timedOut,
                   errs, closedCaches, gsLog>>

\* server.Shutdown(ctx) closes the listeners first
HTTPShutdownBegin(x) ==
    /\ x \in HTTPServers
    /\ sd[x] = "spawned"
    /\ listener' = [listener EXCEPT ![x] = "closed"]
    /\ sd' = [sd EXCEPT ![x] = "waiting"]
    /\ UNCHANGED <<gatewayVars, besideShutdown, gsPc, conn, ctxExpired, timedOut,
                   errs, closedCaches, gsLog>>

\* mutant: Shutdown returns without waiting for the active connections
HTTPShutdownOutcomesNoWait(x) == {"ok"}

\* server.Shutdown(ctx) returns nil once no connection is active, and the
\* context's error once the context has expired
HTTPShutdownOutcomes(x) ==
    (IF conn[x].st # "active" THEN {"ok"} ELSE {}) \cup
    (IF ctxExpired THEN {"err"} ELSE {})

\* shutdownHTTPServer: Shutdown returned; an error goes to errChan; wg.Done()
HTTPShutdownReturn(x) ==
    /\ x \in HTTPServers
    /\ sd[x] = "waiting"
    /\ \E out \in HTTPShutdownOutcomes(x) :
          /\ sd' = [sd EXCEPT ![x] = out]
          /\ errs' = IF out = "err" THEN errs + 1 ELSE errs
    /\ UNCHANGED <<gatewayVars, besideShutdown, gsPc, listener, conn, ctxExpired,
                   timedOut, closedCaches, gsLog>>

\* shutdownTCPProxy: proxy.SetShutdownContext(ctx); listener.Close()
TCPShutdownBegin(x) ==
    /\ x \in TCPProxies
    /\ sd[x] = "spawned"
    /\ listener' = [listener EXCEPT ![x] = "closed"]
    /\ sd' = [sd EXCEPT ![x] = "waiting"]
    /\ UNCHANGED <<gatewayVars, besideShutdown, gsPc, conn, ctxExpired, timedOut,
                   errs, closedCaches, gsLog>>

\* proxy.Shutdown(ctx) returns once no connection is active, or once the
\* context has expired, which cancels the active connections; wg.Done()
TCPShutdownReturn(x) ==
    /\ x \in TCPProxies
    /\ sd[x] = "waiting"
    /\ \/ /\ conn[x].st # "active"
          /\ UNCHANGED conn
       \/ /\ ctxExpired
          /\ conn' = [conn EXCEPT ![x].st = IF @ = "active" THEN "cut" ELSE @]
    /\ sd' = [sd EXCEPT ![x] = "ok"]
    /\ UNCHANGED <<gatewayVars, besideShutdown, gsPc, listener, ctxExpired, timedOut,
                   errs, closedCaches, gsLog>>

\* every shutdown goroutine has called wg.Done(): serverShutdownDone is closed
ServerShutdownDone == \A x \in Proxies : sd[x] \in {"ok", "err"}

\* gracefulShutdown: select { case <-serverShutdownDone: case <-ctx.Done(): }
GracefulShutdownSelect ==
    /\ gsPc = "select"
    /\ \/ /\ ServerShutdownDone
          /\ gsPc' = "closing"
          /\ UNCHANGED timedOut
       \/ /\ ctxExpired
          /\ gsPc' = "wait"
          /\ timedOut' = TRUE
    /\ UNCHANGED <<gatewayVars, besideShutdown, listener, conn, sd, ctxExpired, errs,
                   closedCaches, gsLog>>

\* gracefulShutdown after the timeout: <-serverShutdownDone
GracefulShutdownWait ==
    /\ gsPc = "wait"
    /\ ServerShutdownDone
    /\ gsPc' = "closing"
    /\ UNCHANGED <<gatewayVars, besideShutdown, listener, conn, sd, ctxExpired,
                   timedOut, errs, closedCaches, gsLog>>

\* gracefulShutdown: gw.cacheClose()
GracefulShutdownCacheClose ==
    /\ gsPc = "closing"
    /\ closedCaches' = cacheClose
    /\ gsPc' = "errors"
    /\ UNCHANGED <<gatewayVars, besideShutdown, listener, conn, sd, ctxExpired,
                   timedOut, errs, gsLog>>

\* what gracefulShutdown does after it has read errChan: with an error it
\* returns at once; else DefaultProxyMux.again.Close() and, with
\* UseDBAppConfigs, StopBeating, a sleep and DeRegister
GracefulShutdownTail(n, useDBAppConfigs) ==
    IF n > 0 THEN <<>>
    ELSE <<"again.Close">> \o
         (IF useDBAppConfigs THEN <<"StopBeating", "DeRegister">> ELSE <<>>)

\* gracefulShutdown returns: an error if errChan held any, else after the
\* listeners are closed and the node is deregistered
GracefulShutdownReturn ==
    /\ gsPc = "errors"
    /\ gsPc' = IF errs > 0 THEN "failed" ELSE "returned"
    /\ gsLog' = GracefulShutdownTail(errs, conf.UseDBAppConfigs)
    /\ UNCHANGED <<gatewayVars, besideShutdown, listener, conn, sd, ctxExpired,
                   timedOut, errs, closedCaches>>

\* Start: close(shutdownComplete); <-shutdownComplete; the process ends and
\* with it the connections that are still open
ProcessExit ==
    /\ gsPc \in {"failed", "returned"}
    /\ gsPc' = "exited"
    /\ conn' = [x \in Proxies |->
                   [conn[x] EXCEPT !.st = IF @ = "active" THEN "cut" ELSE @]]
    /\ UNCHANGED <<gatewayVars, besideShutdown, listener, sd, ctxExpired, timedOut,
                   errs, closedCaches, gsLog>>

\* ------------------------------------------------------ dashboard calls
\* the request is built: ServiceNonceMutex.RLock(); X-Tyk-Nonce = ServiceNonce;
\* RUnlock(); the request is sent
DashRequest(c) ==
    /\ dc[c].pc = "idle"
    /\ dc' = [dc EXCEPT ![c] = [IdleCall EXCEPT !.pc = "sent", !.carried = ServiceNonce]]
    /\ UNCHANGED <<gatewayVars, besideDash, ServiceNonce, issued, lastDelivered, hbVars>>

\* the dashboard answers: 200 with a new nonce, 403, or the call fails (echo
\* is history: the request carried the nonce of the latest 200 response)
DashReply(c) ==
    /\ dc[c].pc = "sent"
    /\ \/ /\ issued < MaxNonce
          /\ issued' = issued + 1
          /\ lastDelivered' = issued + 1
          /\ dc' = [dc EXCEPT ![c] = [@ EXCEPT !.pc = "resp", !.status = "ok",
                                               !.nonce = issued + 1, !.carried = 0,
                                               !.echo = (dc[c].carried = lastDelivered)]]
       \/ /\ \E st \in {"forbidden", "failed"} :
                dc' = [dc EXCEPT ![c] = [@ EXCEPT !.pc = "resp", !.status = st,
                                                  !.carried = 0,
                                                  !.echo = (dc[c].carried = lastDelivered)]]
          /\ UNCHANGED <<issued, lastDelivered>>
    /\ UNCHANGED <<gatewayVars, besideDash, ServiceNonce, hbVars>>

\* mutant: the nonce field of whatever response arrived is stored
StoredNonceAnyStatus(c) == dc[c].nonce

\* the caller handles the response: on 200 ServiceNonce = val.Nonce under
\* ServiceNonceMutex.Lock(); an error or another status returns before that
StoredNonce(c) == IF dc[c].status = "ok" THEN dc[c].nonce ELSE ServiceNonce

DashHandle(c) ==
    /\ dc[c].pc = "resp"
    /\ ServiceNonce' = StoredNonce(c)
    /\ dc' = [dc EXCEPT ![c] =
                 IF c = "heartbeat" /\ dc[c].status = "forbidden"
                 THEN [IdleCall EXCEPT !.pc = "register"]
                 ELSE IdleCall]
    /\ UNCHANGED <<gatewayVars, besideDash, issued, lastDelivered, hbVars>>

\* sendHeartBeat on 403: DashService.Register, which retries until the
\* dashboard registers the node and then stores the nonce of the registration
DashRegister ==
    /\ dc["heartbeat"].pc = "register"
    /\ issued < MaxNonce
    /\ issued' = issued + 1
    /\ lastDelivered' = issued + 1
    /\ ServiceNonce' = issued + 1
    /\ dc' = [dc EXCEPT !["heartbeat"] = IdleCall]
    /\ UNCHANGED <<gatewayVars, besideDash, hbVars>>

\* ------------------------------------------- re-registration on a 403 ping
\* sendHeartBeat on 403: h.Gw.DashService.Register(ctx), which builds its
\* request (without X-Tyk-Nonce) and sends it
RegisterSend ==
    /\ dc["heartbeat"].pc = "register"
    /\ reg.pc = "idle"
    /\ reg' = [IdleRegister EXCEPT !.pc = "sent"]
    /\ hbLog' = <<>>
    /\ UNCHANGED <<gatewayVars, besideDash, ServiceNonce, dc, issued, lastDelivered, NodeID>>

\* the dashboard answers the registration: 200 with a nonce and, in
\* Message, a NodeID or none; or 409, another status, a body that does not
\* decode, or no answer
RegisterReply ==
    /\ reg.pc = "sent"
    /\ \/ /\ issued < MaxNonce
          /\ issued' = issued + 1
          /\ lastDelivered' = issued + 1
          /\ \E n \in NodeIDs, f \in BOOLEAN :
                reg' = [reg EXCEPT !.pc = "resp", !.status = "ok",
                                   !.node = IF f THEN n ELSE "", !.found = f,
                                   !.nonce = issued + 1]
       \/ /\ \E st \in {"failed", "conflict", "other", "undecodable"} :
                reg' = [reg EXCEPT !.pc = "resp", !.status = st]
          /\ UNCHANGED <<issued, lastDelivered>>
    /\ UNCHANGED <<gatewayVars, besideDash, ServiceNonce, dc, NodeID, hbLog>>

\* Register returns to sendHeartBeat, which returns to StartBeating
RegisterReturns ==
    /\ reg' = IdleRegister
    /\ dc' = [dc EXCEPT !["heartbeat"] = IdleCall]

\* "retrying in 5s": select on ctx.Done() (return ctx.Err()) and
\* time.After(5 s) (return h.Register(ctx), a new request)
RegisterRetry ==
    \/ /\ ctxDone
       /\ RegisterReturns
    \/ /\ reg' = [IdleRegister EXCEPT !.pc = "sent"]
       /\ UNCHANGED dc

\* Register handles the response, up to and including h.Gw.SetNodeID(nodeID)
RegisterHandle ==
    /\ reg.pc = "resp"
    /\ \/ /\ reg.status \in {"failed", "other"}
          /\ RegisterRetry
          /\ UNCHANGED <<NodeID, hbLog>>
       \/ /\ reg.status \in {"conflict", "undecodable"}
          /\ RegisterReturns
          /\ UNCHANGED <<NodeID, hbLog>>
       \/ /\ reg.status = "ok"
          /\ NodeID' = reg.node
          /\ IF reg.found
             THEN /\ reg' = [reg EXCEPT !.pc = "registered"]
                  /\ hbLog' = Append(hbLog, "node")
                  /\ UNCHANGED dc
             ELSE /\ RegisterRetry
                  /\ UNCHANGED hbLog
    /\ UNCHANGED <<gatewayVars, besideDash, ServiceNonce, issued, lastDelivered>>

\* Register: h.Gw.ServiceNonce = val.Nonce under ServiceNonceMutex.Lock()
RegisterStoreNonce ==
    /\ reg.pc = "registered"
    /\ ServiceNonce' = reg.nonce
    /\ reg' = [reg EXCEPT !.pc = "reload"]
    /\ hbLog' = Append(hbLog, "nonce")
    /\ UNCHANGED <<gatewayVars, besideDash, dc, issued, lastDelivered, NodeID>>

\* Register: h.Gw.DoReload()
RegisterReload ==
    /\ reg.pc = "reload"
    /\ dr["Register"].pc = "idle"
    /\ CallDoReload("Register")
    /\ reg' = [reg EXCEPT !.pc = "reloading"]
    /\ hbLog' = Append(hbLog, "reload")
    /\ UNCHANGED <<probe, rpcUp, apiSource, conf, regVars, lockVars, emergency,
                   performedSuccessfulReload, stepLog, preReg, queueVars,
                   loopVars, ctxDone, readerVars, started, besideDash,
                   ServiceNonce, dc, issued, lastDelivered, NodeID>>

\* DoReload has returned: Register returns nil
RegisterReturn ==
    /\ reg.pc = "reloading"
    /\ dr["Register"].pc = "idle"
    /\ RegisterReturns
    /\ UNCHANGED <<gatewayVars, besideDash, ServiceNonce, issued, lastDelivered,
                   NodeID, hbLog>>

\* ------------------------------------------------------ middleware chains
\* mutant: the handlers declared disabled are loaded too
KeepDisabled(list) == list

\* the loop body "if mwObj.Disabled { continue }; ... append(..., mwObj)"
RECURSIVE SkipDisabled(_)
SkipDisabled(list) ==
    IF list = <<>> THEN <<>>
    ELSE IF Head(list).disabled THEN SkipDisabled(Tail(list))
         ELSE <<Head(list)>> \o SkipDisabled(Tail(list))

\* loadCustomMiddleware: mwPreFuncs, mwPostFuncs, mwPostKeyAuthFuncs and
\* mwResponseFuncs; the folders are read after the Pre and Post loops and
\* before the PostKeyAuth and Response loops
loadCustomMiddleware(cm, files) ==
    [s \in Slots |->
        CASE s = "Pre" -> SkipDisabled(cm["Pre"]) \o files.pre
          [] s = "Post" -> SkipDisabled(cm["Post"]) \o files.post
          [] s = "PostKeyAuth" -> files.post_auth \o SkipDisabled(cm["PostKeyAuth"])
          [] s = "Response" -> SkipDisabled(cm["Response"])]

\* a handler of the response chain: its kind and, for a custom response
\* hook, the middleware it was initialised with
Handler(kind, m) == [kind |-> kind, mw |-> m]
CacheWriter == Handler("response_cache", "")

\* gw.responseMWAppendEnabled: appends the handler if it is enabled and
\* tells whether it did
responseMWAppendEnabled(chain, h, enabled) ==
    IF enabled THEN Append(chain, h) ELSE chain

\* gw.responseProcessorByName: the processor of that name, None if no
\* processor has the name
responseProcessorByName(name) ==
    IF name \in {"header_transform", "goplugin_res_hook", "custom_mw_res_hook"}
    THEN name ELSE None

\* the loop over spec.ResponseProcessors
RECURSIVE AppendProcessors(_, _, _)
AppendProcessors(chain, rp, headerInjectorAdded) ==
    IF rp = <<>> THEN chain
    ELSE IF Head(rp) = "header_injector"
         THEN AppendProcessors(IF headerInjectorAdded THEN chain
                               ELSE Append(chain, Handler("header_injector", "")),
                               Tail(rp), headerInjectorAdded)
         ELSE IF responseProcessorByName(Head(rp)) = None
              THEN AppendProcessors(chain, Tail(rp), headerInjectorAdded)
              ELSE AppendProcessors(Append(chain, Handler(responseProcessorByName(Head(rp)), "")),
                                    Tail(rp), headerInjectorAdded)

\* the loop over middlewares: a Go plugin hook for a path ending in ".so",
\* a custom middleware hook otherwise
RECURSIVE AppendMiddlewares(_, _)
AppendMiddlewares(chain, middlewares) ==
    IF middlewares = <<>> THEN chain
    ELSE LET m == Head(middlewares)
             processor == responseProcessorByName(IF m.name = "m1" THEN "goplugin_res_hook"
                                                  ELSE "custom_mw_res_hook")
         IN  AppendMiddlewares(IF processor = None THEN chain
                               ELSE Append(chain, Handler(processor, m.name)),
                               Tail(middlewares))

\* mutant: the cache writer is put in front of the chain
PrependCacheWriter(chain) == <<CacheWriter>> \o chain

\* "Add cache writer as the final step of the response middleware chain"
AppendCacheWriter(chain) == Append(chain, CacheWriter)

createResponseMiddlewareChain(api, middlewares) ==
    LET withTransform == responseMWAppendEnabled(<<>>, Handler("response_transform", ""),
                                                 api.transform)
        withInjector == responseMWAppendEnabled(withTransform,
                                                Handler("header_injector", ""), api.injector)
    IN  AppendCacheWriter(
            AppendMiddlewares(AppendProcessors(withInjector, api.rp, api.injector),
                              middlewares))

\* an API spec is handed to the loader: one slot with any list and the
\* others with few handlers, with or without files in the folders; or
\* response handlers with any response processors and the built-in handlers
\* enabled or not
LoadAPISpec ==
    /\ mw.pc = "idle"
    /\ \/ \E focus \in Slots, l \in MwLists, f \in [Slots -> FewMwLists],
             fl \in {NoFiles, SomeFiles} :
             mw' = [IdleMw EXCEPT !.pc = "spec",
                       !.api = APISpec([s \in Slots |-> IF s = focus THEN l ELSE f[s]],
                                       fl, <<>>, FALSE, FALSE)]
       \/ \E l \in MwLists, r \in SeqsUpTo(ProcessorNames, MaxLen + 1),
             tr \in BOOLEAN, inj \in BOOLEAN :
             mw' = [IdleMw EXCEPT !.pc = "spec",
                       !.api = APISpec([s \in Slots |-> IF s = "Response" THEN l ELSE <<>>],
                                       NoFiles, r, tr, inj)]
    /\ UNCHANGED <<gatewayVars, besideMiddleware>>

LoadCustomMiddleware ==
    /\ mw.pc = "spec"
    /\ mw' = [mw EXCEPT !.pc = "loaded",
                        !.slots = loadCustomMiddleware(mw.api.cm, mw.api.files)]
    /\ UNCHANGED <<gatewayVars, besideMiddleware>>

CreateResponseMiddlewareChain ==
    /\ mw.pc = "loaded"
    /\ mw' = [mw EXCEPT !.pc = "chained",
                        !.chain = createResponseMiddlewareChain(mw.api, mw.slots["Response"])]
    /\ UNCHANGED <<gatewayVars, besideMiddleware>>

\* the chain is handed to the API's handler; the loader takes the next spec
APISpecLoaded ==
    /\ mw.pc = "chained"
    /\ mw' = IdleMw
    /\ UNCHANGED <<gatewayVars, besideMiddleware>>

\* ------------------------------------------------ Go-plugin response hook
\* http.ResponseWriter.WriteHeader: the first status written is the one sent
WriteHeader(w, code) == IF w = 0 THEN code ELSE w

\* the response chain reaches the hook: HandleGoPluginResponse builds rw
\* around w and calls h.ResHandler(rw, res, req)
HandleGoPluginResponse ==
    /\ gp.pc = "idle"
    /\ \E n \in 0 .. MaxLen + 1 :
          gp' = [IdlePlugin EXCEPT !.pc = "handler", !.later = n]
    /\ UNCHANGED <<gatewayVars, besidePlugin>>

\* the plugin calls rw.WriteHeader(code)
PluginWriteHeader ==
    /\ gp.pc = "handler"
    /\ ~gp.responseSent
    /\ \E code \in PluginStatuses :
          gp' = [gp EXCEPT !.responseSent = TRUE, !.statusCodeSent = code,
                           !.w = WriteHeader(gp.w, code)]
    /\ UNCHANGED <<gatewayVars, besidePlugin>>

\* the plugin calls rw.Write(body), which sends 200 if no status was sent
PluginWrite ==
    /\ gp.pc = "handler"
    /\ ~gp.body
    /\ gp' = [gp EXCEPT !.body = TRUE, !.responseSent = TRUE,
                        !.statusCodeSent = IF @ = 0 THEN 200 ELSE @,
                        !.w = WriteHeader(gp.w, 200)]
    /\ UNCHANGED <<gatewayVars, besidePlugin>>

PluginPanic ==
    /\ gp.pc = "handler"
    /\ gp' = [gp EXCEPT !.pc = "panic", !.panicked = TRUE]
    /\ UNCHANGED <<gatewayVars, besidePlugin>>

PluginReturn ==
    /\ gp.pc = "handler"
    /\ gp' = [gp EXCEPT !.pc = "after"]
    /\ UNCHANGED <<gatewayVars, besidePlugin>>

\* the deferred function: recover(), w.WriteHeader(500); the function then
\* returns the zero value of its unnamed result, nil
PluginRecover ==
    /\ gp.pc = "panic"
    /\ gp' = [gp EXCEPT !.pc = "returned", !.w = WriteHeader(gp.w, 500), !.ret = "nil"]
    /\ UNCHANGED <<gatewayVars, besidePlugin>>

\* what HandleGoPluginResponse returns after the plugin returned
SentResult(sent, code) == IF sent /\ code >= 400 THEN "err" ELSE "nil"

\* "check if response was sent"
PluginCheckSent ==
    /\ gp.pc = "after"
    /\ gp' = [gp EXCEPT !.pc = "returned",
                        !.ret = SentResult(gp.responseSent, gp.statusCodeSent),
                        !.w = IF gp.responseSent /\ gp.statusCodeSent >= 400
                              THEN WriteHeader(gp.w, gp.statusCodeSent) ELSE gp.w]
    /\ UNCHANGED <<gatewayVars, besidePlugin>>

\* the caller of HandleResponse: an error ends the response chain, nil lets
\* the processors behind the hook run
ResponseChainGoesOn ==
    /\ gp.pc = "returned"
    /\ gp' = [gp EXCEPT !.pc = "done", !.ran = IF gp.ret = "err" THEN 0 ELSE gp.later]
    /\ UNCHANGED <<gatewayVars, besidePlugin>>

ResponseChainDone ==
    /\ gp.pc = "done"
    /\ gp' = IdlePlugin
    /\ UNCHANGED <<gatewayVars, besidePlugin>>

\* -------------------------------------------------------- circuit breaker
\* mutant: only 500 counts as a failure
IsFailureOnly500(code) == code = 500

\* any 5xx counts as failure
IsFailure(code) == code >= 500

\* the rolling sample window: the latest `samples` responses
Sampled(window, failed, samples) ==
    LET w == Append(window, failed)
    IN  IF Len(w) > samples THEN Tail(w) ELSE w

Failures(window) == Cardinality({k \in 1 .. Len(window) : window[k]})

\* failure ratio >= threshold over `samples` consecutive responses
Trips(window, cfg) ==
    /\ Len(window) = cfg.samples
    /\ Failures(window) * 10 >= cfg.threshold * cfg.samples

\* the API is built and loaded with a breaker on the path
BreakerLoadAPI ==
    /\ brk.pc = "unloaded"
    /\ \E cfg \in BreakerConfigs : brk' = [NoBreaker EXCEPT !.pc = "serving", !.cfg = cfg]
    /\ UNCHANGED <<gatewayVars, besideBreaker, breq>>

\* time passes; when the cool-down has expired the breaker goes half-open
BreakerTick ==
    /\ brk.pc = "serving"
    /\ brk.now < MaxTime
    /\ brk' = IF brk.state = "open" /\ brk.now + 1 >= brk.openedAt + brk.cfg.coolDown
              THEN [brk EXCEPT !.now = @ + 1, !.state = "half-open", !.probes = 0]
              ELSE [brk EXCEPT !.now = @ + 1]
    /\ UNCHANGED <<gatewayVars, besideBreaker, breq>>

\* mutant: a half-open breaker lets every request through
ProbeAlways == TRUE

\* a half-open breaker lets the next request through as its probe
ProbeAllowed == brk.probes = 0

\* circuit breaker admission of a request: closed forwards it, open answers
\* 503, half-open forwards one probe and answers 503 to the others
BreakerAdmit(c) ==
    /\ brk.pc = "serving"
    /\ breq[c].pc \in {"idle", "done"}
    /\ \/ /\ brk.state = "closed"
          /\ breq' = [breq EXCEPT ![c] = [NoReq EXCEPT !.pc = "upstream", !.reached = TRUE]]
          /\ UNCHANGED brk
       \/ /\ brk.state = "half-open" /\ ProbeAllowed
          /\ breq' = [breq EXCEPT ![c] = [NoReq EXCEPT !.pc = "upstream", !.reached = TRUE,
                                                        !.probe = TRUE]]
          /\ brk' = [brk EXCEPT !.probes = @ + 1]
       \/ /\ brk.state = "open" \/ (brk.state = "half-open" /\ ~ProbeAllowed)
          /\ breq' = [breq EXCEPT ![c] = [NoReq EXCEPT !.pc = "done", !.code = 503]]
          /\ UNCHANGED brk
    /\ UNCHANGED <<gatewayVars, besideBreaker>>

\* the breaker after the upstream answered a request with code
BreakerSample(b, isProbe, code) ==
    LET failed == IsFailure(code)
        counted == [b EXCEPT !.streak = IF code >= 500 THEN @ + 1 ELSE 0]
        opened == [counted EXCEPT !.state = "open", !.openedAt = b.now, !.window = <<>>,
                                  !.events = Append(@, "BreakerTripped")]
    IN  IF isProbe /\ b.state = "half-open"
        THEN IF failed THEN opened
             ELSE [counted EXCEPT !.state = "closed", !.window = <<>>,
                                  !.events = Append(@, "BreakerReset")]
        ELSE IF b.state = "closed"
             THEN LET w == Sampled(b.window, failed, b.cfg.samples)
                  IN  IF Trips(w, b.cfg) THEN opened ELSE [counted EXCEPT !.window = w]
             ELSE counted

\* the upstream answers and the response is sampled
BreakerResponse(c) ==
    /\ breq[c].pc = "upstream"
    /\ \E code \in UpstreamCodes :
          /\ breq' = [breq EXCEPT ![c] = [@ EXCEPT !.pc = "done", !.code = code]]
          /\ brk' = BreakerSample(brk, breq[c].probe, code)
    /\ UNCHANGED <<gatewayVars, besideBreaker>>

\* ---------------------------------------------------------- heartbeat loop
\* the loops that have been started and have not returned
Beating == {l \in Loops : hb.loop[l].pc \notin {"none", "returned"}}

\* the loop the next StartBeating call runs
NextLoop == CHOOSE l \in Loops : hb.loop[l].pc = "none" /\ \A k \in 1 .. l - 1 : hb.loop[k].pc # "none"

\* StartBeating: atomic.SwapInt32(&h.heartBeatStopSentinel, HeartBeatStarted),
\* then the loop
StartBeating(l) ==
    [hb EXCEPT !.sentinel = "started", !.loop[l].pc = "check"]

\* StopBeating: atomic.SwapInt32(&h.heartBeatStopSentinel, HeartBeatStopped)
StopBeating ==
    [hb EXCEPT !.sentinel = "stopped",
               !.loop = [l \in Loops |->
                           IF l \in Beating
                           THEN [hb.loop[l] EXCEPT !.stopped = TRUE, !.sent = 0]
                           ELSE hb.loop[l]]]

\* handleDashboardRegistration: go StartBeating(gw.ctx)
BootStartBeating ==
    /\ hb.loop[1].pc = "none"
    /\ hb' = StartBeating(1)
    /\ UNCHANGED <<gatewayVars, besideBeat>>

\* isHeartBeatStopped
isHeartBeatStopped == hb.sentinel = "stopped"

\* the loop's default branch: return if stopped, else go on to sendHeartBeat
HeartbeatCheck(l) ==
    /\ hb.loop[l].pc = "check"
    /\ hb' = [hb EXCEPT !.loop[l].pc = IF isHeartBeatStopped THEN "returned" ELSE "send"]
    /\ UNCHANGED <<gatewayVars, besideBeat>>

\* sendHeartBeat: the request is sent (client.Do)
HeartbeatSend(l) ==
    /\ hb.loop[l].pc = "send"
    /\ hb' = [hb EXCEPT !.loop[l].pc = "request",
                         !.loop[l].sent = IF hb.loop[l].stopped /\ @ < 2 THEN @ + 1 ELSE @]
    /\ UNCHANGED <<gatewayVars, besideBeat>>

\* the request ends, with an answer or an error, after any time within the
\* client's timeout; the loop goes to sleep
HeartbeatReply(l) ==
    /\ hb.loop[l].pc = "request"
    /\ hb' = [hb EXCEPT !.loop[l].pc = "sleep", !.loop[l].timer = HeartbeatSleep]
    /\ UNCHANGED <<gatewayVars, besideBeat>>

\* time.Sleep(time.Second * 2) is over
HeartbeatWake(l) ==
    /\ hb.loop[l].pc = "sleep"
    /\ hb.loop[l].timer = 0
    /\ hb' = [hb EXCEPT !.loop[l].pc = "check"]
    /\ UNCHANGED <<gatewayVars, besideBeat>>

\* reLogin: gw.DashService.StopBeating()
ReLoginStopBeating ==
    /\ hb.rl.pc = "idle"
    /\ hb.loop[1].pc # "none"
    /\ hb.rl.logins < MaxCalls - 1
    /\ ~hb.shut
    /\ hb' = [StopBeating EXCEPT !.rl.pc = "deregister", !.rl.logins = @ + 1]
    /\ UNCHANGED <<gatewayVars, besideBeat>>

\* reLogin: DeRegister, then time.Sleep(5 * time.Second)
ReLoginDeRegister ==
    /\ hb.rl.pc = "deregister"
    /\ hb' = [hb EXCEPT !.rl.pc = "sleep", !.rl.timer = ReLoginSleep]
    /\ UNCHANGED <<gatewayVars, besideBeat>>

\* reLogin: Register returns nil (else branch: go StartBeating) or an error
ReLoginRegister ==
    /\ hb.rl.pc = "sleep"
    /\ hb.rl.timer = 0
    /\ \E ok \in BOOLEAN :
          hb' = [hb EXCEPT !.rl.pc = IF ok THEN "start" ELSE "idle"]
    /\ UNCHANGED <<gatewayVars, besideBeat>>

\* the goroutine of reLogin: StartBeating(context.Background())
ReLoginStartBeating ==
    /\ hb.rl.pc = "start"
    /\ hb' = [StartBeating(NextLoop) EXCEPT !.rl.pc = "idle"]
    /\ UNCHANGED <<gatewayVars, besideBeat>>

\* gracefulShutdown: gw.DashService.StopBeating()
ShutdownStopBeating ==
    /\ ~hb.shut
    /\ hb.loop[1].pc # "none"
    /\ hb' = [StopBeating EXCEPT !.shut = TRUE]
    /\ UNCHANGED <<gatewayVars, besideBeat>>

\* the timers that run: those of the sleeping loops and of reLogin
Sleepers == {l \in Loops : hb.loop[l].pc = "sleep"}

\* a second passes. Time passes only while every goroutine is asleep or
\* blocked in a request: a sleeper whose time is over wakes first, and a
\* loop between its wake-up and its request, or a goroutine about to call
\* StartBeating, takes its steps first
BeatTick ==
    /\ \A l \in Sleepers : hb.loop[l].timer > 0
    /\ hb.rl.pc = "sleep" => hb.rl.timer > 0
    /\ \A l \in Loops : hb.loop[l].pc \notin {"check", "send"}
    /\ hb.rl.pc # "start"
    /\ Sleepers # {} \/ hb.rl.pc = "sleep"
    /\ hb' = [hb EXCEPT !.loop = [l \in Loops |->
                                    IF l \in Sleepers
                                    THEN [hb.loop[l] EXCEPT !.timer = @ - 1]
                                    ELSE hb.loop[l]],
                         !.rl.timer = IF hb.rl.pc = "sleep" THEN @ - 1 ELSE @]
    /\ UNCHANGED <<gatewayVars, besideBeat>>

\* ---------------------------------------------------------- startDRL
\* the configuration is replaced (SetConfig)
DRLSetConfig ==
    /\ \E flags \in SUBSET DRLFlags :
          /\ flags # drl.cfg
          /\ drl' = [drl EXCEPT !.cfg = flags]
    /\ UNCHANGED <<gatewayVars, besideDRL>>

\* gwConfig := gw.GetConfig(); disabled := ...
StartDRL(g) ==
    /\ drl.call[g].pc = "idle"
    /\ drl.returned < 2 * MaxCalls
    /\ drl' = [drl EXCEPT !.call[g] = [pc |-> "once", disabled |-> drl.cfg # {}]]
    /\ UNCHANGED <<gatewayVars, besideDRL>>

\* the value of disabled in the call of g
Disabled(g) == drl.call[g].disabled

\* mutant: the function given to Do runs in every call
OnceNever(once) == TRUE

\* sync.Once: the function given to Do has not started to run
OnceFresh(once) == once = "fresh"

\* gw.drlOnce.Do: the first call runs the function, a call that finds it
\* running waits for its end, a later call returns at once
DRLOnceDo(g) ==
    /\ drl.call[g].pc = "once"
    /\ \/ /\ OnceFresh(drl.once)
          /\ drl' = [drl EXCEPT !.once = "running", !.call[g].pc = "limiter"]
       \/ /\ ~OnceFresh(drl.once)
          /\ drl.once = "done"
          /\ drl' = [drl EXCEPT !.call[g] = [pc |-> "idle", disabled |-> FALSE], !.returned = @ + 1]
    /\ UNCHANGED <<gatewayVars, besideDRL>>

\* gw.SessionLimiter = NewSessionLimiter(...); gw.DRLManager = drlManager
DRLNewSessionLimiter(g) ==
    /\ drl.call[g].pc = "limiter"
    /\ drl' = [drl EXCEPT !.limiters = @ + 1, !.call[g].pc = "check"]
    /\ UNCHANGED <<gatewayVars, besideDRL>>

\* if disabled { return }
DRLDisabledReturn(g) ==
    /\ drl.call[g].pc = "check"
    /\ Disabled(g)
    /\ drl' = [drl EXCEPT !.once = "done",
                           !.call[g] = [pc |-> "idle", disabled |-> FALSE], !.returned = @ + 1]
    /\ UNCHANGED <<gatewayVars, besideDRL>>

\* drlManager.Init(gw.ctx)
DRLInit(g) ==
    /\ drl.call[g].pc = "check"
    /\ ~Disabled(g)
    /\ drl' = [drl EXCEPT !.inits = @ + 1, !.call[g].pc = "notify"]
    /\ UNCHANGED <<gatewayVars, besideDRL>>

\* gw.startRateLimitNotifications(), and the function given to Do returns
DRLStartNotifications(g) ==
    /\ drl.call[g].pc = "notify"
    /\ drl' = [drl EXCEPT !.notifs = @ + 1, !.once = "done",
                           !.call[g] = [pc |-> "idle", disabled |-> FALSE], !.returned = @ + 1]
    /\ UNCHANGED <<gatewayVars, besideDRL>>

\* ---------------------------------------------------------- URL joining
\* strings.TrimRight(a, "/") and strings.TrimLeft(b, "/")
RECURSIVE TrimRight(_)
TrimRight(a) ==
    IF a # <<>> /\ a[Len(a)] = "/" THEN TrimRight(SubSeq(a, 1, Len(a) - 1)) ELSE a

RECURSIVE TrimLeft(_)
TrimLeft(b) ==
    IF b # <<>> /\ b[1] = "/" THEN TrimLeft(Tail(b)) ELSE b

\* the slashes at the end of a and at the start of b become exactly one; a
\* gateway that keeps slashes (disableStripSlash) leaves a as it is when b
\* is empty or "/"
singleJoiningSlash(a, b, disableStripSlash) ==
    IF disableStripSlash /\ (b = <<>> \/ b = <<"/">>)
    THEN a
    ELSE LET ta == TrimRight(a)
             tb == TrimLeft(b)
         IN  IF tb # <<>> THEN ta \o <<"/">> \o tb ELSE ta

\* the rows (a, b, want) of the test with slashes stripped
testsFalse ==
    { <<<<>>, <<>>, <<>>>>,
      <<<<"/">>, <<>>, <<>>>>,
      <<<<>>, <<"/">>, <<>>>>,
      <<<<"/">>, <<"/">>, <<>>>>,
      <<<<"foo">>, <<>>, <<"foo">>>>,
      <<<<"foo">>, <<"/">>, <<"foo">>>>,
      <<<<"foo">>, <<"bar">>, <<"foo", "/", "bar">>>>,
      <<<<"foo", "/">>, <<"bar">>, <<"foo", "/", "bar">>>>,
      <<<<"foo">>, <<"/", "bar">>, <<"foo", "/", "bar">>>>,
      <<<<"foo", "/">>, <<"/", "bar">>, <<"foo", "/", "bar">>>>,
      <<<<"foo", "/", "/">>, <<"/", "/", "bar">>, <<"foo", "/", "bar">>>>,
      <<<<"foo">>, <<"bar", "/">>, <<"foo", "/", "bar", "/">>>>,
      <<<<"foo", "/">>, <<"bar", "/">>, <<"foo", "/", "bar", "/">>>>,
      <<<<"foo">>, <<"/", "bar", "/">>, <<"foo", "/", "bar", "/">>>>,
      <<<<"foo", "/">>, <<"/", "bar", "/">>, <<"foo", "/", "bar", "/">>>>,
      <<<<"foo", "/", "/">>, <<"/", "/", "bar", "/">>, <<"foo", "/", "bar", "/">>>> }

\* the rows of the test with slashes kept
testsTrue ==
    { <<<<>>, <<>>, <<>>>>,
      <<<<"/">>, <<>>, <<"/">>>>,
      <<<<>>, <<"/">>, <<>>>>,
      <<<<"/">>, <<"/">>, <<"/">>>>,
      <<<<"foo">>, <<>>, <<"foo">>>>,
      <<<<"foo">>, <<"/">>, <<"foo">>>>,
      <<<<"foo", "/">>, <<>>, <<"foo", "/">>>>,
      <<<<"foo", "/">>, <<"/">>, <<"foo", "/">>>>,
      <<<<"foo", "/">>, <<"/", "name">>, <<"foo", "/", "name">>>>,
      <<<<"foo", "/">>, <<"/", "name", "/">>, <<"foo", "/", "name", "/">>>>,
      <<<<"foo", "/">>, <<"/", "/", "name">>, <<"foo", "/", "name">>>>,
      <<<<"foo", "/">>, <<"/", "/", "name", "/">>, <<"foo", "/", "name", "/">>>> }

\* the function gives every row of the test its wanted result
TestSingleJoiningSlash ==
    /\ \A r \in testsFalse : singleJoiningSlash(r[1], r[2], FALSE) = r[3]
    /\ \A r \in testsTrue : singleJoiningSlash(r[1], r[2], TRUE) = r[3]

\* a request arrives for a target: the two paths to join
JoinRequest ==
    /\ pj.pc = "idle"
    /\ TestSingleJoiningSlash
    /\ \E a \in TargetPaths, b \in RequestPaths, keep \in BOOLEAN :
          pj' = [NoJoin EXCEPT !.pc = "request", !.a = a, !.b = b, !.keep = keep]
    /\ UNCHANGED <<gatewayVars, besideJoin>>

JoinPaths ==
    /\ pj.pc = "request"
    /\ pj' = [pj EXCEPT !.pc = "joined", !.out = singleJoiningSlash(pj.a, pj.b, pj.keep)]
    /\ UNCHANGED <<gatewayVars, besideJoin>>

\* the result is joined with the empty path
JoinEmpty ==
    /\ pj.pc = "joined"
    /\ pj' = [pj EXCEPT !.pc = "rejoined", !.again = singleJoiningSlash(pj.out, <<>>, pj.keep)]
    /\ UNCHANGED <<gatewayVars, besideJoin>>

JoinDone ==
    /\ pj.pc = "rejoined"
    /\ pj' = NoJoin
    /\ UNCHANGED <<gatewayVars, besideJoin>>

\* ---------------------------------------------------------- header discipline
\* the upstream answers with its headers while the gateway has injected its own
UpstreamHeaders ==
    /\ hdr.pc = "idle"
    /\ \E s \in SUBSET HeaderNames, d \in SUBSET HeaderNames :
          hdr' = [pc |-> "received", src |-> makeHeaders(s, "upstream"),
                  dst |-> makeHeaders(d, "tyk.io")]
    /\ UNCHANGED <<gatewayVars, besideHeader>>

\* mutant: the source keeps its CORS headers
keepDuplicateCORSHeader(dst, src) == src

\* a CORS header that the destination carries is deleted from the source
removeDuplicateCORSHeader(dst, src) ==
    [h \in HeaderNames |-> IF h \in corsHeaders /\ dst[h] # <<>> THEN <<>> ELSE src[h]]

\* the values of the source are added to those of the destination
copyHeader(dst, src) ==
    LET s == removeDuplicateCORSHeader(dst, src)
    IN  [h \in HeaderNames |-> dst[h] \o s[h]]

CopyHeader ==
    /\ hdr.pc = "received"
    /\ hdr' = [hdr EXCEPT !.pc = "copied", !.dst = copyHeader(hdr.dst, hdr.src)]
    /\ UNCHANGED <<gatewayVars, besideHeader>>

\* the response has been written
HeadersWritten ==
    /\ hdr.pc = "copied"
    /\ hdr' = NoHeaders
    /\ UNCHANGED <<gatewayVars, besideHeader>>

\* ---------------------------------------------------------- enforced timeouts
Min(a, b) == IF a <= b THEN a ELSE b

\* the gateway starts with ProxyDefaultTimeout and loads an API with
\* EnforcedTimeoutEnabled and its hard timeouts
TimeoutLoadAPI ==
    /\ px.pc = "unloaded"
    /\ \E td \in DefaultTimeouts, hard \in HardTimeouts :
          px' = [NoProxy EXCEPT !.pc = "idle", !.td = td, !.hard = hard]
    /\ UNCHANGED <<gatewayVars, besideProxy>>

\* mutant: a matching hard timeout applies even when the default is smaller
PathDeadlineFirst(tp, td) == IF tp > 0 THEN tp ELSE td

\* the deadline of a request, 0 for none: the hard timeout of the matched
\* endpoint if there is one, else the default; the smaller of the two applies
EffectiveDeadline(tp, td) ==
    IF tp > 0 /\ td > 0 THEN Min(tp, td)
    ELSE IF tp > 0 THEN tp ELSE td

TimeoutRequest ==
    /\ px.pc = "idle"
    /\ \E path \in TimeoutPaths, delay \in UpstreamDelays :
          px' = [px EXCEPT !.pc = "upstream", !.path = path, !.delay = delay,
                           !.elapsed = 0, !.code = 0, !.body = ""]
    /\ UNCHANGED <<gatewayVars, besideProxy>>

\* the deadline of the request in flight has passed
DeadlineReached ==
    LET d == EffectiveDeadline(px.hard[px.path], px.td)
    IN  d > 0 /\ px.elapsed >= d

\* a second passes while the upstream sleeps
TimeoutTick ==
    /\ px.pc = "upstream"
    /\ ~DeadlineReached
    /\ px.elapsed < px.delay
    /\ px' = [px EXCEPT !.elapsed = @ + 1]
    /\ UNCHANGED <<gatewayVars, besideProxy>>

\* the deadline passes first: 504 with the fixed body
HardTimeout ==
    /\ px.pc = "upstream"
    /\ DeadlineReached
    /\ px' = [px EXCEPT !.pc = "done", !.code = 504,
                         !.body = "Upstream service reached hard timeout"]
    /\ UNCHANGED <<gatewayVars, besideProxy>>

\* the upstream answers before the deadline
UpstreamAnswer ==
    /\ px.pc = "upstream"
    /\ ~DeadlineReached
    /\ px.elapsed = px.delay
    /\ px' = [px EXCEPT !.pc = "done", !.code = 200, !.body = "Success"]
    /\ UNCHANGED <<gatewayVars, besideProxy>>

\* the client has its answer; the next request may come
TimeoutRequestDone ==
    /\ px.pc = "done"
    /\ px' = [px EXCEPT !.pc = "idle"]
    /\ UNCHANGED <<gatewayVars, besideProxy>>

\* ---------------------------------------------------------- quota manager
\* the sessions are created with their quota
QuotaCreateSession ==
    /\ quota.pc = "unloaded"
    /\ \E cfg \in QuotaConfigs : quota' = [NoQuota EXCEPT !.pc = "serving", !.cfg = cfg]
    /\ UNCHANGED <<gatewayVars, besideQuota>>

QuotaTick ==
    /\ quota.pc = "serving"
    /\ quota.now < MaxTime
    /\ quota' = [quota EXCEPT !.now = @ + 1]
    /\ UNCHANGED <<gatewayVars, besideQuota>>

\* mutant: one request more than QuotaMax is admitted
QuotaExhaustedLate(counter, max) == counter > max

\* the counter of the window has reached QuotaMax
QuotaExhausted(counter, max) == counter >= max

\* the store's atomic read-modify-write for one request of a session: a
\* window that has run out restarts with the counter at 1; otherwise the
\* request is admitted and counted, or rejected with 403 on exhaustion
QuotaAllow(s, now, cfg) ==
    IF now >= s.renewsAt
    THEN [s EXCEPT !.counter = 1, !.renewsAt = now + cfg.rate,
                   !.log = <<cfg.max - 1>>, !.code = 200, !.remaining = cfg.max - 1]
    ELSE IF QuotaExhausted(s.counter, cfg.max)
         THEN [s EXCEPT !.code = 403, !.remaining = 0]
         ELSE [s EXCEPT !.counter = @ + 1,
                        !.log = Append(@, cfg.max - (s.counter + 1)),
                        !.code = 200, !.remaining = cfg.max - (s.counter + 1)]

QuotaRequest(k) ==
    /\ quota.pc = "serving"
    /\ quota' = [quota EXCEPT !.sess[k] = QuotaAllow(@, quota.now, quota.cfg)]
    /\ UNCHANGED <<gatewayVars, besideQuota>>

\* ---------------------------------------------------------- control API
\* r.Header.Get: the value of the header, "" if the header is absent
HeaderGet(h) == IF h.present THEN h.value ELSE ""

\* afterConfSetup: conf.Secret = gw.kvStore(conf.Secret); then
\* loadControlAPIEndpoints wraps the /tyk/ router in checkIsAPIOwner, which
\* reads gw.GetConfig().Secret once
AfterConfSetup ==
    /\ ctl.pc = "boot"
    /\ \E s \in Secrets : ctl' = [ctl EXCEPT !.pc = "idle", !.secret = s]
    /\ UNCHANGED <<gatewayVars, besideControl>>

\* a request to a path under /tyk/ arrives
ControlRequest ==
    /\ ctl.pc \in {"idle", "done"}
    /\ \E path \in ControlPaths, h \in AuthHeaders :
          ctl' = [ctl EXCEPT !.pc = "check", !.req = [path |-> path, auth |-> h],
                             !.status = 0, !.invoked = FALSE]
    /\ UNCHANGED <<gatewayVars, besideControl>>

\* the handler checkIsAPIOwner returns
checkIsAPIOwner ==
    /\ ctl.pc = "check"
    /\ ctl' = IF HeaderGet(ctl.req.auth) # ctl.secret
              THEN [ctl EXCEPT !.pc = "done", !.status = 403]
              ELSE [ctl EXCEPT !.pc = "next"]
    /\ UNCHANGED <<gatewayVars, besideControl>>

\* next.ServeHTTP(w, r): the router runs the endpoint handler of the path,
\* or answers 404
ControlServe ==
    /\ ctl.pc = "next"
    /\ ctl' = IF ctl.req.path = "/tyk/nowhere"
              THEN [ctl EXCEPT !.pc = "done", !.status = 404]
              ELSE [ctl EXCEPT !.pc = "done", !.status = 200, !.invoked = TRUE]
    /\ UNCHANGED <<gatewayVars, besideControl>>

\* ------------------------------------------------------- specifications
DoReloadStep(p) ==
    \/ DoReloadLock(p)
    \/ DoReloadJSVM(p)
    \/ SyncPoliciesLoad(p)
    \/ SyncPoliciesLock(p)
    \/ SyncPoliciesAssign(p)
    \/ SyncAPISpecsLoad(p)
    \/ SyncAPISpecsValidate(p)
    \/ SyncAPISpecsLock(p)
    \/ SyncAPISpecsAssign(p)
    \/ SyncResources(p)
    \/ SyncResourcesSleep(p)
    \/ DoReloadPoliciesSynced(p)
    \/ DoReloadAPIsSynced(p)
    \/ LoadGlobalAppsCopy(p)
    \/ LoadAppsLock(p)
    \/ LoadAppsAssign(p)
    \/ DoReloadFinish(p)
    \/ DoReloadReturn(p)

\* DoReload called again and again by Register, against a reader of the
\* registry (SpecCallers runs the callers of DoReload against each other)
NextReload ==
    \/ DoReloadStep("Register")
    \/ RegisterDoReload
    \/ ReaderRLock
    \/ ReaderRUnlock

Spec == Init /\ [][NextReload]_vars

\* all three callers of DoReload against each other, on a gateway slaved to
\* RPC; the reload loop starts from a requeue that may already hold a callback
InitCallers == \E q \in {<<>>, <<Nil>>} : InitState(RPCConfigs, OneApiLists, q) /\ ~probe

NextCallers ==
    \/ \E p \in Procs : DoReloadStep(p)
    \/ RegisterDoReload
    \/ StartServerDoReload
    \/ ReloadLoopTickIdle
    \/ ReloadLoopTick
    \/ ReloadLoopCoprocess
    \/ ReloadLoopCallback
    \/ ReloadLoopComplete

SpecCallers == InitCallers /\ [][NextCallers]_vars

\* the reload queue and the reload loop, with reloadLoop the only caller of
\* DoReload
NextQueue ==
    \/ DoReloadStep("reloadLoop")
    \/ \E done \in {nextCall + 1, Nil} : ReloadURLStructure(done)
    \/ \E m \in sending : ReloadQueueLoopRecv(m)
    \/ ReloadQueueLoopAppend
    \/ ReloadQueueLoopExit
    \/ ReloadLoopTickIdle
    \/ ReloadLoopTick
    \/ ReloadLoopCoprocess
    \/ ReloadLoopCallback
    \/ ReloadLoopComplete
    \/ ReloadLoopExit
    \/ CancelCtx

\* a gateway slaved to RPC: every outcome of DoReload (success, skipped,
\* failed, emergency retry) stays reachable
InitQueue == InitState(RPCConfigs, OneApiLists, <<>>) /\ ~probe

SpecQueue == InitQueue /\ [][NextQueue]_vars

\* the reload queue and loop under the scheduling the runtime gives: the
\* goroutines of reloadQueueLoop and reloadLoop keep running and ticks keep
\* arriving
QueueFairness ==
    /\ WF_vars(\E m \in sending : ReloadQueueLoopRecv(m))
    /\ WF_vars(ReloadQueueLoopAppend)
    /\ WF_vars(ReloadLoopTick)
    /\ WF_vars(DoReloadStep("reloadLoop"))
    /\ WF_vars(ReloadLoopCoprocess)
    /\ WF_vars(ReloadLoopCallback)
    /\ WF_vars(ReloadLoopComplete)

\* the gateway context is never cancelled
NextQueueLive ==
    \/ DoReloadStep("reloadLoop")
    \/ \E done \in {nextCall + 1, Nil} : ReloadURLStructure(done)
    \/ \E m \in sending : ReloadQueueLoopRecv(m)
    \/ ReloadQueueLoopAppend
    \/ ReloadLoopTickIdle
    \/ ReloadLoopTick
    \/ ReloadLoopCoprocess
    \/ ReloadLoopCallback
    \/ ReloadLoopComplete

\* a gateway that reads its policies and APIs from files, with the JSVM
\* enabled and one retry: a reload succeeds, is skipped, or fails
FileConfigs ==
    {c \in Configs : /\ ~c.UseRPC /\ ~c.UseDBAppConfigs /\ c.PolicyRecord
                     /\ c.EnableJSVM /\ c.RetryAttempts = 1}

InitQueueLive == InitState(FileConfigs, OneApiLists, <<>>) /\ ~probe

SpecQueueFair == InitQueueLive /\ [][NextQueueLive]_vars /\ QueueFairness

\* reloads of a gateway slaved to RPC whose RPC store comes and goes
NextEmergency ==
    \/ DoReloadStep("Register")
    \/ RegisterDoReload
    \/ RPCDown
    \/ RPCUp

InitEmergency == InitState(RPCConfigs, OneApiLists, <<>>) /\ probe

SpecEmergency == InitEmergency /\ [][NextEmergency]_vars

\* reloads from a source that delivers valid and invalid definitions
NextInstall ==
    \/ DoReloadStep("Register")
    \/ RegisterDoReload

InitInstall == InitState(RPCConfigs, MixedLists, <<>>) /\ probe

SpecInstall == InitInstall /\ [][NextInstall]_vars

\* the policy loaders, each on every reply or directory within the bounds
NextPolicies ==
    \/ PolicyLoaderCall
    \/ DashboardPoliciesLoaded
    \/ RPCPoliciesLoaded
    \/ DirPoliciesLoaded

SpecPolicies == InitQueue /\ [][NextPolicies]_vars

\* the proxies of the mux serving and being shut down
NextShutdown ==
    \/ \E x \in Proxies : Accept(x)
    \/ \E x \in Proxies : RequestComplete(x)
    \/ ShutdownSignal
    \/ ShutdownTimeout
    \/ GracefulShutdownSpawn
    \/ \E x \in Proxies : HTTPShutdownBegin(x)
    \/ \E x \in Proxies : HTTPShutdownReturn(x)
    \/ \E x \in Proxies : TCPShutdownBegin(x)
    \/ \E x \in Proxies : TCPShutdownReturn(x)
    \/ GracefulShutdownSelect
    \/ GracefulShutdownWait
    \/ GracefulShutdownCacheClose
    \/ GracefulShutdownReturn
    \/ ProcessExit

SpecShutdown == InitQueue /\ [][NextShutdown]_vars

\* a gateway that takes its configuration from the dashboard
DashConfigs ==
    {c \in Configs : /\ c.UseDBAppConfigs /\ ~c.UseRPC
                     /\ c.EnableJSVM /\ c.RetryAttempts = 1}

InitShutdownDash == InitState(DashConfigs, OneApiLists, <<>>) /\ ~probe

\* the shutdown of a gateway registered with the dashboard
SpecShutdownDash == InitShutdownDash /\ [][NextShutdown]_vars

\* the calls to the dashboard, in every interleaving
NextDash ==
    \/ \E c \in DashCallers : DashRequest(c)
    \/ \E c \in DashCallers : DashReply(c)
    \/ \E c \in DashCallers : DashHandle(c)
    \/ DashRegister

SpecDash == InitQueue /\ [][NextDash]_vars

\* the heartbeat of a gateway whose dashboard may answer a ping with 403
NextHeartbeat ==
    \/ DashRequest("heartbeat")
    \/ DashReply("heartbeat")
    \/ DashHandle("heartbeat")
    \/ RegisterSend
    \/ RegisterReply
    \/ RegisterHandle
    \/ RegisterStoreNonce
    \/ RegisterReload
    \/ DoReloadStep("Register")
    \/ RegisterReturn
    \/ CancelCtx

SpecHeartbeat == InitQueue /\ [][NextHeartbeat]_vars

\* requests to the control API of a gateway with any secret
NextControl ==
    \/ AfterConfSetup
    \/ ControlRequest
    \/ checkIsAPIOwner
    \/ ControlServe

SpecControl == InitQueue /\ [][NextControl]_vars

\* requests of sessions with a quota, over several renewal windows
NextQuota ==
    \/ QuotaCreateSession
    \/ QuotaTick
    \/ \E k \in Sessions : QuotaRequest(k)

SpecQuota == InitQueue /\ [][NextQuota]_vars

\* heartbeat loops, reLogin and the shutdown's stop, with the sleeps timed
NextBeat ==
    \/ BootStartBeating
    \/ \E l \in Loops :
          \/ HeartbeatCheck(l)
          \/ HeartbeatSend(l)
          \/ HeartbeatReply(l)
          \/ HeartbeatWake(l)
    \/ ReLoginStopBeating
    \/ ReLoginDeRegister
    \/ ReLoginRegister
    \/ ReLoginStartBeating
    \/ ShutdownStopBeating
    \/ BeatTick

SpecBeat == InitQueue /\ [][NextBeat]_vars

\* calls of startDRL from several goroutines while the configuration changes
NextDRL ==
    \/ DRLSetConfig
    \/ \E g \in DRLCallers :
          \/ StartDRL(g)
          \/ DRLOnceDo(g)
          \/ DRLNewSessionLimiter(g)
          \/ DRLDisabledReturn(g)
          \/ DRLInit(g)
          \/ DRLStartNotifications(g)

SpecDRL == InitQueue /\ [][NextDRL]_vars

\* target and request paths joined, and the result joined with the empty path
NextJoin ==
    \/ JoinRequest
    \/ JoinPaths
    \/ JoinEmpty
    \/ JoinDone

SpecJoin == InitQueue /\ [][NextJoin]_vars

\* responses whose headers are copied into the gateway's
NextHeader ==
    \/ UpstreamHeaders
    \/ CopyHeader
    \/ HeadersWritten

SpecHeader == InitQueue /\ [][NextHeader]_vars

\* requests to an upstream that sleeps, under enforced timeouts
NextTimeout ==
    \/ TimeoutLoadAPI
    \/ TimeoutRequest
    \/ TimeoutTick
    \/ HardTimeout
    \/ UpstreamAnswer
    \/ TimeoutRequestDone

SpecTimeout == InitQueue /\ [][NextTimeout]_vars

\* requests of two clients to a path protected by a circuit breaker
NextBreaker ==
    \/ BreakerLoadAPI
    \/ BreakerTick
    \/ \E c \in Clients : BreakerAdmit(c)
    \/ \E c \in Clients : BreakerResponse(c)

SpecBreaker == InitQueue /\ [][NextBreaker]_vars

\* a Go-plugin response hook with a plugin that writes, returns or panics
NextPlugin ==
    \/ HandleGoPluginResponse
    \/ PluginWriteHeader
    \/ PluginWrite
    \/ PluginPanic
    \/ PluginReturn
    \/ PluginRecover
    \/ PluginCheckSent
    \/ ResponseChainGoesOn
    \/ ResponseChainDone

SpecPlugin == InitQueue /\ [][NextPlugin]_vars

\* the custom middleware and the response chain of every API spec loaded
NextMiddleware ==
    \/ LoadAPISpec
    \/ LoadCustomMiddleware
    \/ CreateResponseMiddlewareChain
    \/ APISpecLoaded

SpecMiddleware == InitQueue /\ [][NextMiddleware]_vars

\* ------------------------------------------------------------- properties
Range(f) == {f[k] : k \in DOMAIN f}
IsPrefix(a, b) == Len(a) <= Len(b) /\ \A k \in 1 .. Len(a) : a[k] = b[k]
Returning(p) == dr[p].pc = "ret"
Inside(p) == dr[p].pc \notin {"idle", "lock"}
\* the API sync of p's DoReload succeeded and returned zero APIs
ApiSyncZero(p) == dr[p].res = "apis" /\ ~dr[p].err /\ dr[p].count = 0

\* C1: every read made while a DoReload runs observes the registry that
\* DoReload started from or the registry it leaves behind, apiSpecs and
\* apisByID together.
SnapshotAtomicity ==
    \A p \in Procs :
        Returning(p) => obs \subseteq {preReg, Registry}

\* C2 as stated: a DoReload whose API sync returned zero APIs while the
\* registry was non-empty leaves apiSpecs and apisByID unchanged.
ZeroSyncLeavesRegistry ==
    \A p \in Procs :
        Returning(p) /\ ApiSyncZero(p) /\ preReg.byID # {} => Registry = preReg

\* C2 amended: a DoReload whose API sync returned zero APIs leaves the
\* registry empty, so it is unchanged only if it was empty before.
ZeroSyncEmptiesRegistry ==
    \A p \in Procs :
        Returning(p) /\ ApiSyncZero(p) =>
            /\ Registry = NoRegistry
            /\ (Registry = preReg <=> preReg.byID = {})

ZeroSyncOnNonEmptyReturned ==
    \E p \in Procs :
        /\ Returning(p) /\ ApiSyncZero(p)
        /\ preReg.byID # {} /\ preReg.specs # <<>> /\ Registry = NoRegistry

\* C3: when the API sync returned zero APIs and apisByID is empty, DoReload
\* returns without running loadGlobalApps.
EmptyOnEmptyAbandoned ==
    \A p \in Procs :
        Returning(p) /\ ApiSyncZero(p) /\ preReg.byID = {} =>
            /\ dr[p].result = "abandoned"
            /\ RebuildStart \notin Range(stepLog)

EmptyOnEmptyReturned ==
    \E p \in Procs :
        /\ Returning(p) /\ ApiSyncZero(p) /\ preReg.byID = {}
        /\ dr[p].result = "abandoned" /\ performedSuccessfulReload

\* C4: a successful API sync returning zero APIs on a non-empty registry
\* runs the rebuild, which replaces apisByID by the empty register.
NonEmptyToEmptyHonored ==
    \A p \in Procs :
        Returning(p) /\ ApiSyncZero(p) /\ preReg.byID # {} =>
            /\ dr[p].result = "success"
            /\ RebuildDone \in Range(stepLog)
            /\ apisByID = {}

NonEmptyToEmptyRebuilt ==
    \E p \in Procs :
        /\ Returning(p) /\ ApiSyncZero(p) /\ preReg.byID # {}
        /\ dr[p].result = "success" /\ stepLog[Len(stepLog)] = RebuildDone

\* the steps of a complete DoReload, in order
JSVMPart == IF conf.EnableJSVM THEN <<JSVMStep>> ELSE <<>>
FullReload ==
    JSVMPart \o <<PolStart, PolOK, ApiStart, ApiOK, RebuildStart, RebuildDone>>
PoliciesFailed == JSVMPart \o <<PolStart, PolErr>>
APIsFailed == JSVMPart \o <<PolStart, PolOK, ApiStart, ApiErr>>

\* C5: the steps of a DoReload happen in the order JSVM re-init (when
\* enabled), policy sync, API sync, rebuild, each starting after the previous
\* one returned, and nothing follows a failed policy or API sync.
ReloadStepOrder ==
    \/ IsPrefix(stepLog, FullReload)
    \/ IsPrefix(stepLog, PoliciesFailed)
    \/ IsPrefix(stepLog, APIsFailed)

FullReloadDone ==
    /\ conf.EnableJSVM
    /\ stepLog = FullReload
    /\ \E p \in Procs : Returning(p) /\ dr[p].result = "success"

\* C7: a reload holds the write lock of apisMu or policiesMu only for an
\* assignment, never while it loads from a source, validates or sleeps.
LocksOnlyForAssignment ==
    \A p \in Procs :
        /\ apisMu.w = p => dr[p].pc \in {"api_assign", "load_assign"}
        /\ policiesMu = p => dr[p].pc = "pol_assign"
        /\ dr[p].pc \in {"pol_load", "api_load", "api_validate", "sleep"} =>
               apisMu.w = None /\ policiesMu = None

ReaderDuringSleep ==
    \E p \in Procs :
        /\ dr[p].pc = "sleep" /\ dr[p].res = "apis"
        /\ rpc = "rlocked" /\ apisMu.w = None

\* C6: at most one caller is inside DoReload at any time.
OneReloadAtATime == Cardinality({p \in Procs : Inside(p)}) <= 1

ReloadWithTwoWaiting ==
    \E p \in Procs :
        /\ Inside(p) /\ reloadMu = p
        /\ \A q \in Procs \ {p} : dr[q].pc = "lock"

\* the callbacks of the running cycle that the loop has passed
Passed == {cb[k] : k \in {j \in 1 .. Len(cb) : j < idx}} \ {Nil}

\* C8 as stated: callbacks of a cycle are invoked only if the cycle's
\* DoReload did not fail in its policy sync or its API sync.
CallbacksOnlyOnSuccess ==
    lpc = "callbacks" /\ Passed \cap Range(invoked) # {} => cycleResult # "failed"

\* C8 amended: the callbacks of a cycle are invoked once the cycle's DoReload
\* has returned, whatever its outcome: none before it returned, and then
\* every non-nil callback the loop has passed.
CallbacksAfterEveryReload ==
    /\ lpc \in {"reload", "coprocess"} => Range(cb) \cap Range(invoked) = {}
    /\ lpc = "callbacks" => dr["reloadLoop"].pc = "idle" /\ Passed \subseteq Range(invoked)

CallbacksAfterFailedReload ==
    /\ lpc = "callbacks" /\ cycleResult = "failed"
    /\ idx > Len(cb) /\ Passed # {} /\ Passed \subseteq Range(invoked)

NonNil(q) == SelectSeq(q, LAMBDA x : x # Nil)

\* C9: callbacks are invoked in the order reloadQueueLoop received them from
\* reloadURLStructure, and a nil callback is never invoked.
CallbacksInQueueOrder ==
    /\ IsPrefix(invoked, NonNil(queued))
    /\ Nil \notin Range(invoked)

TwoCallbacksOneCycle ==
    /\ lpc = "callbacks" /\ Len(cb) = 2 /\ idx > 2
    /\ invoked = cb /\ queued = cb

\* C10: while the gateway context is not cancelled, every non-nil callback
\* passed to reloadURLStructure is eventually invoked.
EveryCallbackInvoked ==
    \A c \in Callbacks :
        (\E m \in sending : m.fn = c) ~> (c \in Range(invoked))

QueuedBehindAnotherInvoked ==
    /\ Len(cb) = 2 /\ cb[1] = Nil /\ cb[2] # Nil
    /\ cb[2] \in Range(invoked) /\ ~ctxDone

\* C11: syncResourcesWithReload calls the sync function at most
\* RetryAttempts+1 times and returns the count of the first call that
\* succeeds without calling it again; only after all these attempts failed on
\* a gateway slaved to RPC is the sync function called once more, in
\* emergency mode; when no call succeeds the result is count 0 and an error.
SyncAttemptsBounded ==
    \A p \in Procs :
        dr[p].pc = "synced" =>
            LET d == dr[p] IN
            /\ d.oks + (IF d.err THEN 1 ELSE 0) = 1
            /\ ~d.em => d.calls <= conf.RetryAttempts + 1
            /\ d.em => conf.UseRPC /\ emergency /\ d.calls = conf.RetryAttempts + 2
            /\ d.err => /\ d.count = 0
                        /\ d.em = conf.UseRPC
                        /\ d.calls >= conf.RetryAttempts + 1
            /\ ~d.err /\ d.res = "apis" => d.count = Len(apiSpecs)
            /\ ~d.err /\ d.res = "policies" =>
                   d.count = IF conf.PolicyRecord THEN Cardinality(policiesByID) ELSE 0

\* a sync that failed RetryAttempts+1 times (with a retry) and then loaded
\* in emergency mode
EmergencyRetrySucceeded ==
    \E p \in Procs :
        /\ dr[p].pc = "synced" /\ dr[p].em /\ ~dr[p].err
        /\ conf.RetryAttempts >= 1 /\ dr[p].calls = conf.RetryAttempts + 2
        /\ dr[p].count > 0

\* C12: emergency mode becomes inactive on the first successful remote sync:
\* a policy sync that succeeds in a reload during which the RPC store was
\* reachable, and that did not itself fall back to emergency mode, has
\* loaded from the RPC store and leaves the gateway out of emergency mode.
EmergencyLeftOnRemoteSync ==
    \A p \in Procs :
        /\ dr[p].pc = "synced" /\ dr[p].res = "policies"
        /\ ~dr[p].err /\ ~dr[p].em /\ dr[p].reach
        => dr[p].from = "rpc" /\ ~emergency

\* C13: a reload that fails because a sync exhausted its attempts leaves the
\* policy registry and the API registry as they were before that reload.
FailedReloadKeepsSnapshot ==
    \A p \in Procs :
        Returning(p) /\ dr[p].result = "failed" =>
            /\ probe => policiesByID = dr[p].prePols
            /\ Registry = preReg

\* C14: a successful syncAPISpecs has installed in gw.apiSpecs exactly the
\* loaded definitions that pass validation, in their loaded order, and
\* returns their number; invalid definitions do not fail the sync.
ValidatedInstall ==
    \A p \in Procs :
        dr[p].pc = "sync_ret" /\ dr[p].res = "apis" /\ ~dr[p].err /\ probe =>
            /\ apiSpecs = SelectSeq(dr[p].loaded, LAMBDA d : d.valid)
            /\ dr[p].count = Len(apiSpecs)

\* a list with an invalid definition before a valid one was loaded and the
\* valid one alone is installed
InvalidExcludedValidInstalled ==
    \E p \in Procs :
        /\ dr[p].pc = "sync_ret" /\ dr[p].res = "apis" /\ ~dr[p].err /\ probe
        /\ Len(dr[p].loaded) = 2
        /\ ~dr[p].loaded[1].valid /\ dr[p].loaded[2].valid
        /\ apiSpecs = <<dr[p].loaded[2]>>
        /\ dr[p].count = 1

\* the key under which a loader files the item at position k of its input
InputKey(k) ==
    IF plLoader = "dir" THEN plInput[k].id ELSE PolicyKey(plInput[k], plExplicit)
\* the positions of the items a loader files under id
Filed(id) ==
    {k \in 1 .. Len(plInput) :
        InputKey(k) = id /\ (plLoader = "dir" => plInput[k].opens)}
Last(S) == CHOOSE k \in S : \A j \in S : j <= k
First(S) == CHOOSE k \in S : \A j \in S : k <= j

\* C15 as stated: of several policies with the same id the loaded map keeps
\* the last, whichever the policy source.
LastWinsEverySource ==
    plPc = "done" =>
        \A id \in DOMAIN plMap : plMap[id] = Last(Filed(id))

\* C15 amended: the maps loaded from RPC and from a directory keep the last
\* of the policies with the same id, the map loaded from the dashboard keeps
\* the first; each map holds exactly the ids that were filed.
TieBreakPerSource ==
    plPc = "done" =>
        /\ DOMAIN plMap = {id \in {"", "m1", "m2"} : Filed(id) # {}}
        /\ \A id \in DOMAIN plMap :
              plMap[id] = IF plLoader = "dashboard" THEN First(Filed(id))
                          ELSE Last(Filed(id))

\* a dashboard reply in which an explicit id repeats the MID of an earlier
\* policy: the earlier policy is kept
DashboardDuplicateLoaded ==
    /\ plPc = "done" /\ plLoader = "dashboard" /\ plExplicit
    /\ Len(plInput) = 2 /\ plInput[1].id = "" /\ plInput[2].id = plInput[1].mid
    /\ plMap = [x \in {"m1"} |-> 1]

\* C16: a policy file that cannot be opened or cannot be decoded contributes
\* no entry to the map loaded from the directory, and every other file is
\* loaded.
UnreadableFilesSkipped ==
    plPc = "done" /\ plLoader = "dir" =>
        LET good == {k \in 1 .. Len(plInput) : plInput[k].opens /\ plInput[k].decodes}
        IN  /\ \A id \in DOMAIN plMap : plMap[id] \in good
            /\ \A k \in good : plInput[k].id \in DOMAIN plMap

Reverse(s) == [k \in 1 .. Len(s) |-> s[Len(s) + 1 - k]]
GracefulShutdownOver == gsPc \in {"failed", "returned", "exited"}

\* C17: gracefulShutdown starts the shutdown of every HTTP server and TCP
\* proxy of the mux, a proxy whose shutdown has started has its listener
\* closed, and an HTTP request accepted before the signal is cut short only
\* after the shutdown timeout has expired.
GracefulShutdownDrains ==
    /\ gsPc \notin {"serving", "spawn"} => \A x \in Proxies : sd[x] # "none"
    /\ \A x \in Proxies : sd[x] \in {"waiting", "ok", "err"} => listener[x] = "closed"
    /\ \A x \in HTTPServers : conn[x].st = "cut" /\ conn[x].before => ctxExpired

\* gracefulShutdown returned before the timeout after waiting for an HTTP
\* request that was accepted before the signal
DrainedBeforeTimeout ==
    /\ gsPc = "returned" /\ ~ctxExpired
    /\ \E x \in HTTPServers : conn[x] = [st |-> "drained", before |-> TRUE]

\* C18: when the shutdown timeout expires with connections still open, they
\* are closed and gracefulShutdown then completes.
TimeoutClosesConnections ==
    GracefulShutdownOver /\ timedOut => \A x \in Proxies : conn[x].st # "active"

\* C19: the caches are closed in the reverse of the order cacheCreate
\* created them in, after every server and proxy has finished shutting down.
CachesClosedLIFO ==
    closedCaches # <<>> =>
        /\ closedCaches = Reverse(CreatedCaches)
        /\ ServerShutdownDone

\* C20: every call to the dashboard carries the nonce that the response to
\* the call before it delivered (at first the registration nonce), and a
\* failed or non-200 response leaves the stored nonce as it was.
NonceEchoed ==
    /\ [](\A c \in DashCallers : dc[c].echo)
    /\ [][\A c \in DashCallers :
             dc[c].pc = "resp" /\ dc[c].status # "ok" /\ dc'[c].pc # "resp"
             => ServiceNonce' = ServiceNonce]_vars

\* C21: a ping answered 403 makes sendHeartBeat call Register and leaves the
\* stored nonce as it was; a registration answered 200 with a NodeID stores
\* that node id, then the nonce of the registration, then calls DoReload, and
\* DoReload is called by Register after nothing else.
ForbiddenPingReregisters ==
    /\ [][dc["heartbeat"].pc = "resp" /\ dc["heartbeat"].status = "forbidden"
              /\ dc'["heartbeat"].pc # "resp"
          => dc'["heartbeat"].pc = "register" /\ ServiceNonce' = ServiceNonce]_vars
    /\ [][reg.pc = "resp" /\ reg.status = "ok" /\ reg.found /\ reg'.pc # "resp"
          => reg'.pc = "registered" /\ NodeID' = reg.node]_vars
    /\ [][reg.pc = "registered" /\ reg'.pc # "registered"
          => reg'.pc = "reload" /\ ServiceNonce' = reg.nonce /\ NodeID' = reg.node]_vars
    /\ [][reg.pc = "reload" /\ reg'.pc # "reload"
          => dr'["Register"].pc = "lock" /\ ServiceNonce' = reg.nonce
             /\ NodeID' = reg.node]_vars
    /\ [](dr["Register"].pc # "idle"
          => reg.pc = "reloading" /\ hbLog = <<"node", "nonce", "reload">>)

\* a re-registration after a 403 ping whose reload has run to its end, the
\* gateway holding the node id and the nonce of the registration
ReregisteredAndReloaded ==
    /\ reg.pc = "reloading" /\ dr["Register"].pc = "ret"
    /\ NodeID = reg.node /\ NodeID \in NodeIDs
    /\ ServiceNonce = reg.nonce /\ ServiceNonce > 1

\* C22: a request under /tyk/ whose X-Tyk-Authorization header is absent or
\* differs from the configured secret is answered 403 and no endpoint
\* handler is invoked for it, whatever the secret.
SharedSecretGuards ==
    /\ ctl.pc \in {"next", "done"}
    /\ ~ctl.req.auth.present \/ ctl.req.auth.value # ctl.secret
    => ctl.pc = "done" /\ ctl.status = 403 /\ ~ctl.invoked

\* C23: the chain createResponseMiddlewareChain returns ends with the
\* response cache writer, which occurs in it exactly once.
CacheWriterLast ==
    mw.pc = "chained" =>
        /\ mw.chain # <<>>
        /\ mw.chain[Len(mw.chain)] = CacheWriter
        /\ Cardinality({k \in 1 .. Len(mw.chain) : mw.chain[k].kind = "response_cache"}) = 1

\* a chain built from enabled built-in handlers, two response processors
\* and two custom response handlers
LongChainBuilt ==
    /\ mw.pc = "chained"
    /\ mw.api.transform /\ mw.api.injector
    /\ Len(mw.api.rp) = 2 /\ Len(mw.slots["Response"]) = 2
    /\ Len(mw.chain) >= 6

\* the handlers a slot declares that are not disabled, in declared order
Declared(s) == SelectSeq(mw.api.cm[s], LAMBDA d : ~d.disabled)
\* the middlewares of the custom response hooks of the chain, in order
ChainMiddlewares ==
    LET hooks == SelectSeq(mw.chain, LAMBDA h : h.mw # "")
    IN  [k \in 1 .. Len(hooks) |-> hooks[k].mw]
DeclaredNames(s) == [k \in 1 .. Len(Declared(s)) |-> Declared(s)[k].name]

\* C24 as stated: in every slot the handlers loaded are exactly the declared
\* handlers that are not disabled, in declared order.
SlotsExactlyDeclared ==
    /\ mw.pc \in {"loaded", "chained"} => \A s \in Slots : mw.slots[s] = Declared(s)
    /\ mw.pc = "chained" => ChainMiddlewares = DeclaredNames("Response")

\* C24 amended: the declared handlers that are not disabled are loaded in
\* declared order and no disabled handler is; the Pre and Post slots hold,
\* after them, the handlers of the files of the pre and post folders, the
\* PostKeyAuth slot holds the handlers of the post_auth folder before them,
\* and the Response slot and the response chain hold nothing else.
SlotsDeclaredThenFolders ==
    /\ mw.pc \in {"loaded", "chained"} =>
          /\ \A s \in Slots :
                /\ SelectSeq(mw.slots[s], LAMBDA d : d \in MwDef) = Declared(s)
                /\ \A k \in 1 .. Len(mw.slots[s]) : ~mw.slots[s][k].disabled
          /\ mw.slots["Pre"] = Declared("Pre") \o mw.api.files.pre
          /\ mw.slots["Post"] = Declared("Post") \o mw.api.files.post
          /\ mw.slots["PostKeyAuth"] = mw.api.files.post_auth \o Declared("PostKeyAuth")
          /\ mw.slots["Response"] = Declared("Response")
    /\ mw.pc = "chained" => ChainMiddlewares = DeclaredNames("Response")

\* a slot that declares an enabled handler after a disabled one, loaded with
\* files in the folders
DisabledSkippedWithFolders ==
    /\ mw.pc = "loaded"
    /\ mw.api.files = SomeFiles
    /\ \E s \in Slots :
          /\ Len(mw.api.cm[s]) = 2
          /\ mw.api.cm[s][1].disabled /\ ~mw.api.cm[s][2].disabled

\* C25: a panic of the plugin's response handler does not leave
\* HandleGoPluginResponse, and the client is sent status 500.
PanicYields500 ==
    gp.panicked /\ gp.pc \in {"returned", "done"} => gp.ret # None /\ gp.w = 500

\* C26: when the plugin has sent a response, whatever its status code,
\* HandleGoPluginResponse reports it to its caller and no response processor
\* behind the hook runs.
SentResponseEndsChain ==
    gp.responseSent /\ gp.pc \in {"returned", "done"} => gp.ret = "err" /\ gp.ran = 0

\* the breaker is open and its cool-down has not expired
InCoolDown == brk.state = "open" /\ brk.now < brk.openedAt + brk.cfg.coolDown

\* C27: once the latest `samples` upstream responses in a row were 5xx, of
\* any 5xx code, the breaker is open until the cool-down expires, and every
\* request that arrives while it is open within the cool-down is answered
\* 503 without reaching the upstream.
BreakerTripShortCircuits ==
    /\ [](brk.pc = "serving" /\ brk.streak >= brk.cfg.samples
            /\ brk.now < brk.openedAt + brk.cfg.coolDown
          => brk.state = "open")
    /\ [][\A c \in Clients :
             InCoolDown /\ breq[c].pc \in {"idle", "done"} /\ breq'[c] # breq[c]
             => breq'[c].pc = "done" /\ breq'[c].code = 503 /\ ~breq'[c].reached]_vars

\* samples = 2: the upstream answered 500 and 502, and the next request was
\* answered 503 without reaching the upstream
ShortCircuitedAfterTrip ==
    /\ brk.cfg.samples = 2 /\ brk.streak = 2 /\ InCoolDown
    /\ breq["c1"].pc = "done" /\ breq["c1"].code = 503 /\ ~breq["c1"].reached
    /\ breq["c2"].pc = "done" /\ breq["c2"].code = 502 /\ breq["c2"].reached

\* C28: when the cool-down has expired the breaker is half-open, not open;
\* while it is half-open one request at most is sent upstream, its probe; a
\* probe answered without a 5xx closes the breaker and emits BreakerReset, a
\* probe answered 5xx opens it again; every opening emits BreakerTripped, and
\* every BreakerReset follows a BreakerTripped.
BreakerRecovers ==
    /\ [](brk.state = "open" => brk.now < brk.openedAt + brk.cfg.coolDown)
    /\ [](brk.state = "half-open"
          => /\ brk.now >= brk.openedAt + brk.cfg.coolDown
             /\ brk.probes <= 1
             /\ Cardinality({c \in Clients : breq[c].pc = "upstream" /\ breq[c].probe}) <= 1)
    /\ [][\A c \in Clients :
             breq[c].pc = "upstream" /\ breq[c].probe /\ breq'[c].pc = "done"
             => IF breq'[c].code < 500
                THEN /\ brk'.state = "closed"
                     /\ brk'.events = Append(brk.events, "BreakerReset")
                ELSE /\ brk'.state = "open"
                     /\ brk'.openedAt = brk.now]_vars
    /\ [][brk.state # "open" /\ brk'.state = "open"
          => brk'.events = Append(brk.events, "BreakerTripped")]_vars
    /\ [](\A k \in 1 .. Len(brk.events) :
            brk.events[k] = "BreakerReset" => k > 1 /\ brk.events[k - 1] = "BreakerTripped")

\* samples = 1 and a cool-down of one tick: the upstream answered 200, then
\* 500; the breaker tripped, and after the cool-down a probe answered 200
\* reset it
TrippedThenReset ==
    /\ brk.cfg.samples = 1 /\ brk.cfg.coolDown = 1
    /\ brk.events = <<"BreakerTripped", "BreakerReset">>
    /\ brk.state = "closed"
    /\ \E c \in Clients : breq[c].pc = "done" /\ breq[c].probe /\ breq[c].code = 200

\* C29: within a renewal window a session has at most QuotaMax requests
\* admitted, the k-th of them is reported remaining = QuotaMax - k, and a
\* request that arrives in the window after QuotaMax were admitted is
\* rejected with 403 and changes no counter.
QuotaWithinWindow ==
    /\ [](\A k \in Sessions :
            LET s == quota.sess[k]
            IN  /\ Len(s.log) <= quota.cfg.max
                /\ \A j \in 1 .. Len(s.log) : s.log[j] = quota.cfg.max - j)
    /\ [][\A k \in Sessions :
             /\ QuotaRequest(k)
             /\ Len(quota.sess[k].log) = quota.cfg.max
             /\ quota.now < quota.sess[k].renewsAt
             => /\ quota'.sess[k].code = 403
                /\ quota'.sess[k].log = quota.sess[k].log
                /\ quota'.sess[k].counter = quota.sess[k].counter]_vars

\* quota 2: a session was answered 200 with remaining 1, 200 with remaining
\* 0 and then 403, while the other session still has its whole quota
QuotaUsedUp ==
    /\ quota.cfg.max = 2
    /\ quota.sess["k1"].log = <<1, 0>> /\ quota.sess["k1"].code = 403
    /\ quota.sess["k2"].log = <<>>

\* C30: with a default timeout T_d configured, the deadline of a request is
\* min(T_p, T_d) when a hard timeout T_p matches its path and T_d otherwise;
\* an upstream delay at or above the deadline is answered 504 with body
\* "Upstream service reached hard timeout", a shorter one with the
\* upstream's response.
TimeoutPriority ==
    px.pc = "done" /\ px.td > 0
    => LET tp == px.hard[px.path]
           deadline == IF tp > 0 /\ tp < px.td THEN tp ELSE px.td
       IN  IF px.delay >= deadline
           THEN px.code = 504 /\ px.body = "Upstream service reached hard timeout"
           ELSE px.code = 200 /\ px.body = "Success"

\* a hard timeout above the default matched, the upstream slept at least
\* the default but less than the hard timeout, and the answer was 504
DefaultBelowHardTimeout ==
    /\ px.pc = "done" /\ px.td > 0
    /\ px.hard[px.path] > px.delay /\ px.delay >= px.td
    /\ px.code = 504

\* C31: after the upstream's headers are copied into the gateway's, every
\* CORS header that the upstream or the gateway carried has exactly one
\* value, and it is the gateway's value if the gateway carried the header.
NoDuplicateCORSHeaders ==
    [][hdr.pc = "received" /\ hdr'.pc = "copied"
       => \A h \in corsHeaders :
            hdr.src[h] # <<>> \/ hdr.dst[h] # <<>>
            => /\ Len(hdr'.dst[h]) = 1
               /\ hdr'.dst[h] = (IF hdr.dst[h] # <<>> THEN hdr.dst[h] ELSE hdr.src[h])]_vars

\* both sides carried a CORS header and Vary: the copy has the gateway's
\* CORS value only, and both values of Vary
CORSHeaderOnBothSides ==
    /\ hdr.pc = "copied"
    /\ hdr.src["Access-Control-Allow-Origin"] = <<"upstream">>
    /\ hdr.dst["Access-Control-Allow-Origin"] = <<"tyk.io">>
    /\ hdr.dst["Access-Control-Allow-Credentials"] = <<"upstream">>
    /\ hdr.dst["Vary"] = <<"tyk.io", "upstream">>

PathJoinIdempotentNoTrailingSlash ==
    pj.pc = "rejoined" /\ (pj.keep \/ pj.out = <<>> \/ pj.out[Len(pj.out)] # "/")
    => pj.again = pj.out

\* C33: over any number of startDRL calls the DRL manager is initialised
\* and the rate-limit notifications are started at most once, and only by a
\* call that read a configuration with none of ManagementNode, sentinel,
\* redis-rolling and fixed-window limiter set; once a call has returned the
\* session limiter has been created exactly once.
DRLAtMostOnce ==
    /\ [](/\ drl.inits <= 1 /\ drl.notifs <= 1 /\ drl.limiters <= 1
          /\ drl.returned > 0 => drl.limiters = 1)
    /\ [][drl'.inits # drl.inits \/ drl'.notifs # drl.notifs
           => \E g \in DRLCallers :
                /\ drl.call[g].pc \in {"check", "notify"}
                /\ ~drl.call[g].disabled]_vars

\* four calls have returned, the limiter was initialised by one of them,
\* and the configuration has a distributed limiter enabled by now
DRLInitialisedOnceOverFourCalls ==
    /\ drl.returned = 4
    /\ drl.inits = 1 /\ drl.notifs = 1 /\ drl.limiters = 1
    /\ "EnableSentinelRateLimiter" \in drl.cfg

\* four calls have returned under a management node: the session limiter
\* exists and the DRL manager was never initialised
DRLDisabledOverFourCalls ==
    /\ drl.returned = 4
    /\ drl.inits = 0 /\ drl.limiters = 1
    /\ drl.cfg = {"ManagementNode"}

\* C34: a tick that finds callbacks queued drains all of them together
\* and starts one DoReload, and DoReload is started by such a tick only; a
\* tick that finds no callback queued starts no DoReload and invokes no
\* callback.
ReloadCoalescing ==
    /\ [][lpc = "select" /\ lpc' = "reload"
           => /\ requeue # <<>> /\ cb' = requeue /\ requeue' = <<>>
              /\ dr["reloadLoop"].pc = "idle" /\ dr'["reloadLoop"].pc # "idle"]_vars
    /\ [][dr["reloadLoop"].pc = "idle" /\ dr'["reloadLoop"].pc # "idle"
           => lpc = "select" /\ lpc' = "reload"]_vars
    /\ [][lpc = "select" /\ requeue = <<>>
           => /\ lpc' \in {"select", "stopped"}
              /\ dr'["reloadLoop"] = dr["reloadLoop"]
              /\ invoked' = invoked /\ cb' = cb]_vars

\* two callbacks queued before one tick are both in the list drained by the
\* tick, whose single DoReload is running, while no callback has been
\* invoked
TwoCallbacksCoalesced ==
    /\ lpc = "reload" /\ Len(cb) = 2 /\ Nil \notin Range(cb)
    /\ requeue = <<>> /\ invoked = <<>>
    /\ dr["reloadLoop"].pc # "idle"

\* the callbacks that are on their way into gw.requeue or wait in it
Waiting == ({m.fn : m \in sending} \cup {qfn} \cup Range(requeue)) \ {Nil}

\* C35: under every interleaving of reloadURLStructure callers with
\* reloadQueueLoop and reloadLoop a callback is invoked at most once; the
\* callbacks of a cycle are those queued when the tick started the cycle's
\* DoReload, and they are invoked after that DoReload has returned; a
\* callback queued while the reload runs is not among them.
CallbackOnceAfterOwnReload ==
    /\ [](/\ \A j, k \in 1 .. Len(invoked) : invoked[j] = invoked[k] => j = k
          /\ Range(invoked) \cap Waiting = {}
          /\ lpc \notin {"select", "stopped"} => Range(cb) \cap Waiting = {})
    /\ [][cb' # cb
           => \/ /\ lpc = "select" /\ lpc' = "reload" /\ cb' = requeue
                 /\ dr["reloadLoop"].pc = "idle" /\ dr'["reloadLoop"].pc # "idle"
              \/ lpc = "callbacks" /\ lpc' = "select" /\ cb' = <<>>]_vars
    /\ [][invoked' # invoked
           => /\ lpc = "callbacks" /\ dr["reloadLoop"].pc = "idle"
              /\ idx \in 1 .. Len(cb) /\ cb' = cb
              /\ invoked' = Append(invoked, cb[idx])]_vars

\* callback 2 was queued while the reload drained for callback 1 was
\* running: at the end of that cycle callback 1 has been invoked and
\* callback 2 still waits
LateCallbackWaitsForNextReload ==
    /\ lpc = "callbacks" /\ idx > Len(cb)
    /\ cb = <<1>> /\ invoked = <<1>> /\ requeue = <<2>>

\* C36: Register returns only after a 200 response with a NodeID (node id
\* and nonce stored, DoReload called once and returned), after a 409 (node
\* id and nonce unchanged, no reload), or when its context is cancelled
\* while it waits to retry; and the node id of the gateway is changed only
\* by a 200 response with a NodeID.
RegisterTerminatesThreeWays ==
    /\ [][reg.pc # "idle" /\ reg'.pc = "idle"
           => \/ /\ reg.pc = "reloading"
                 /\ hbLog = <<"node", "nonce", "reload">>
              \/ /\ reg.pc = "resp" /\ reg.status = "conflict"
                 /\ NodeID' = NodeID /\ ServiceNonce' = ServiceNonce
                 /\ hbLog = <<>>
              \/ /\ reg.pc = "resp" /\ ctxDone
                 /\ \/ reg.status \in {"failed", "other"}
                    \/ reg.status = "ok" /\ ~reg.found]_vars
    /\ [][NodeID' # NodeID => reg.pc = "resp" /\ reg.status = "ok" /\ reg.found]_vars

\* C37: at most one heartbeat loop is running at any time, and a loop that
\* was running when StopBeating was called sends at most one more heartbeat,
\* also when StartBeating is called again afterwards or the loop is blocked
\* in a slow heartbeat request at the time of the stop.
OneHeartbeatLoop ==
    /\ Cardinality(Beating) <= 1
    /\ \A l \in Loops : hb.loop[l].stopped => hb.loop[l].sent <= 1

\* C38: with UseDBAppConfigs every run of gracefulShutdown closes the
\* listeners, stops the heartbeat and then de-registers the node before it
\* returns, also when a server shutdown reported an error or timed out.
ShutdownDeregisters ==
    gsPc \in {"failed", "returned", "exited"} /\ conf.UseDBAppConfigs
    => gsLog = <<"again.Close", "StopBeating", "DeRegister">>

\* without an error from a server shutdown gracefulShutdown stops the
\* heartbeat and de-registers, also after the timeout
ShutdownDeregistersWithoutError ==
    gsPc \in {"failed", "returned", "exited"} /\ conf.UseDBAppConfigs /\ errs = 0
    => gsLog = <<"again.Close", "StopBeating", "DeRegister">>

\* C39: for every API spec and every list of response processors, also one
\* that names "header_injector" more than once, the header injector occurs
\* at most once in the chain createResponseMiddlewareChain builds.
HeaderInjectorAtMostOnce ==
    mw.pc = "chained"
    => Cardinality({k \in 1 .. Len(mw.chain) : mw.chain[k].kind = "header_injector"}) <= 1

\* the header injector occurs at most once when the built-in one is enabled
\* or the processors name it at most once
HeaderInjectorOnceUnlessNamedTwice ==
    /\ mw.pc = "chained"
    /\ \/ mw.api.injector
       \/ Cardinality({k \in 1 .. Len(mw.api.rp) : mw.api.rp[k] = "header_injector"}) <= 1
    => Cardinality({k \in 1 .. Len(mw.chain) : mw.chain[k].kind = "header_injector"}) <= 1

\* C40: HandleGoPluginResponse returns an error exactly when a status of
\* 400 or more has been written to the client, be it sent by the plugin or
\* the 500 written after a panic; it returns nil when the plugin sent
\* nothing or a status below 400.
ErrorIffErrorStatusWritten ==
    gp.pc \in {"returned", "done"} => (gp.ret = "err" <=> gp.w >= 400)

\* when the plugin does not panic, an error is returned exactly when a
\* status of 400 or more was written
ErrorIffErrorStatusWithoutPanic ==
    gp.pc \in {"returned", "done"} /\ ~gp.panicked => (gp.ret = "err" <=> gp.w >= 400)

====
